---- MODULE Spec2Model ----
(***************************************************************************)
(* Multi-round auction core of delftia/cryptobot-challenge:                *)
(*   UserService (createUser, topup), AuctionService (createAuction,       *)
(*   startAuction, placeBid, settleRound) over MongoDB multi-document      *)
(*   transactions.                                                         *)
(*                                                                         *)
(* Spec covers two kinds of run, chosen at the start (variable mode):      *)
(*   serial      every service call runs alone, one call after another;    *)
(*   concurrent  placeBid and settleRound run as concurrent snapshot-      *)
(*               isolated transactions with document-level write conflicts *)
(*               (session.withTransaction), under narrower bounds.         *)
(*                                                                         *)
(* SchedulerSpec covers the Scheduler (timer, running flag, 20 s timeout)  *)
(*   and settleDueAuctions (stale-lease sweep, due list, settleRound loop) *)
(*   over a fleet of two auctions that share the users and the ledger.     *)
(***************************************************************************)
EXTENDS Integers, Sequences, FiniteSets, Bags, TLC

VARIABLES
    auction,        \* the auction document (AuctionSchema)
    wallet,         \* user id -> wallet {availableCents, reservedCents}; DOMAIN = created users
    bids,           \* <<userId, entryId>> -> bid row; DOMAIN = existing rows (unique index)
    winners,        \* set of Winner rows
    ledger,         \* bag of Ledger rows (append-only)
    clock,          \* wall clock, in seconds
    settledRounds,  \* history: the round number of every committed settlement, in commit order
    txns,           \* concurrent runs: the transaction each worker has in flight
    mode,           \* "serial" or "concurrent" (Spec), "fleet" (SchedulerSpec); fixed at the start
    fleet,          \* SchedulerSpec: auction id -> that auction's document, bids and winners
    sched           \* SchedulerSpec: the Scheduler object and its settleDueAuctions invocations

vars == <<auction, wallet, bids, winners, ledger, clock, settledRounds, txns, mode, fleet, sched>>

----------------------------------------------------------------------------
\* Bounds of the model.

MaxTicks == 4       \* serial runs: the clock advances at most this many times
ConcMaxTicks == 1   \* concurrent runs: the clock advances at most this many times
MaxFunds == 3       \* serial runs: topups stop once this much was credited, over all users
ConcMaxFunds == 2   \* concurrent runs: the same

\* createAuction rejects a roundDurationSec below this.
MinRoundDurationSec == 10
\* Serial runs: the clock advances in steps of half the shortest round.
TickSec == MinRoundDurationSec \div 2
\* Concurrent runs: in steps of the shortest round.
ConcTickSec == MinRoundDurationSec

\* The amounts callers pass (0 is the rejected one).
BidAmounts == 0..MaxFunds
ConcBidAmounts == 1..ConcMaxFunds
TopupAmounts == {0, 1}

UserIds == {"alice", "bob"}
EntryIds == {"default", "e2"}
\* The entries callers bid on.
BidKeys == {<<"alice", "default">>, <<"alice", "e2">>, <<"bob", "default">>}
ConcBidKeys == {<<"alice", "default">>, <<"bob", "default">>}
Workers == {"w1", "w2"}

AuctionId == "a1"
MissingId == "missing"

\* A missing (null / undefined) date, and a missing lock id.
Null == -1
NoLock == "none"

Min(a, b) == IF a <= b THEN a ELSE b
Max(a, b) == IF a >= b THEN a ELSE b

----------------------------------------------------------------------------
\* The database as one value, so that a transaction body is a function of it.

DB == [auction |-> auction, wallet |-> wallet, bids |-> bids,
       winners |-> winners, ledger |-> ledger]

LedgerRow(userId, type, amountCents) ==
    [userId |-> userId, type |-> type, amountCents |-> amountCents]

\* createAuction inputs.
Input(totalItems, itemsPerRound, roundDurationSec, minBidCents, antiSnipe) ==
    [totalItems |-> totalItems, itemsPerRound |-> itemsPerRound,
     roundDurationSec |-> roundDurationSec, minBidCents |-> minBidCents,
     antiSnipeWindowSec |-> antiSnipe[1], antiSnipeExtensionSec |-> antiSnipe[2],
     antiSnipeMaxTotalExtensionSec |-> antiSnipe[3]]

\* Anti-sniping off; as in the anti-sniping test; and with no cap.
SnipeOff == <<0, 0, 0>>
SnipeCapped == <<10, 5, 10>>
SnipeUncapped == <<10, 5, 0>>

\* The inputs serial runs start from (createAuction rejects the last two).
AuctionInputs ==
    { Input(3, 1, 10, 1, SnipeOff),
      Input(1, 1, 10, 1, SnipeCapped),
      Input(2, 1, 10, 1, SnipeCapped),
      Input(2, 2, 10, 1, SnipeOff),
      Input(1, 1, 10, 2, SnipeUncapped),
      Input(1, 2, 10, 1, SnipeOff),
      Input(1, 1, 5, 1, SnipeOff) }

\* The inputs concurrent runs start from.
ConcAuctionInputs ==
    { Input(1, 1, 10, 1, SnipeOff),
      Input(1, 1, 10, 1, SnipeCapped) }

CreateAuctionErr(input) ==
    IF input.totalItems <= 0 THEN "TOTAL_ITEMS_MUST_BE_POSITIVE"
    ELSE IF input.itemsPerRound <= 0 THEN "ITEMS_PER_ROUND_MUST_BE_POSITIVE"
    ELSE IF input.itemsPerRound > input.totalItems THEN "ITEMS_PER_ROUND_GT_TOTAL"
    ELSE IF input.roundDurationSec < MinRoundDurationSec THEN "ROUND_DURATION_TOO_SMALL"
    ELSE "OK"

CreateAuction(input) ==
    [minBidCents |-> input.minBidCents,
     totalItems |-> input.totalItems,
     itemsPerRound |-> input.itemsPerRound,
     roundDurationSec |-> input.roundDurationSec,
     antiSnipeWindowSec |-> input.antiSnipeWindowSec,
     antiSnipeExtensionSec |-> input.antiSnipeExtensionSec,
     antiSnipeMaxTotalExtensionSec |-> input.antiSnipeMaxTotalExtensionSec,
     status |-> "draft",
     currentRound |-> 0,
     currentRoundStartedAt |-> Null,
     currentRoundEndsAt |-> Null,
     currentRoundExtendedBySec |-> 0,
     settling |-> FALSE,
     settlingLockId |-> NoLock,
     settlingAt |-> Null,
     remainingItems |-> input.totalItems,
     nextGiftNumber |-> 1]

----------------------------------------------------------------------------
\* UserService.

CreateUserBody(db, username) ==
    IF username \in DOMAIN db.wallet
    THEN [err |-> "E11000_DUPLICATE_KEY", db |-> db]
    ELSE [err |-> "OK",
          db |-> [db EXCEPT !.wallet =
                     (username :> [availableCents |-> 0, reservedCents |-> 0]) @@ db.wallet]]

\* A variant of TopupBody without the check of the amount.
TopupBodyNoAmountCheck(db, userId, amountCents) ==
    IF userId \notin DOMAIN db.wallet THEN [err |-> "USER_NOT_FOUND", db |-> db]
    ELSE [err |-> "OK",
          db |-> [db EXCEPT !.wallet[userId].availableCents = @ + amountCents,
                            !.ledger = @ (+) SetToBag({LedgerRow(userId, "TOPUP", amountCents)})]]

\* A variant of TopupBody that credits the wallet and writes no ledger row.
TopupBodyNoLedger(db, userId, amountCents) ==
    IF amountCents <= 0 THEN [err |-> "AMOUNT_MUST_BE_POSITIVE", db |-> db]
    ELSE IF userId \notin DOMAIN db.wallet THEN [err |-> "USER_NOT_FOUND", db |-> db]
    ELSE [err |-> "OK",
          db |-> [db EXCEPT !.wallet[userId].availableCents = @ + amountCents]]

TopupBody(db, userId, amountCents) ==
    IF amountCents <= 0 THEN [err |-> "AMOUNT_MUST_BE_POSITIVE", db |-> db]
    ELSE IF userId \notin DOMAIN db.wallet THEN [err |-> "USER_NOT_FOUND", db |-> db]
    ELSE [err |-> "OK",
          db |-> [db EXCEPT !.wallet[userId].availableCents = @ + amountCents,
                            !.ledger = @ (+) SetToBag({LedgerRow(userId, "TOPUP", amountCents)})]]

----------------------------------------------------------------------------
\* AuctionService.startAuction.

StartAuctionBody(db, auctionId, now) ==
    IF auctionId # AuctionId THEN [err |-> "AUCTION_NOT_FOUND", db |-> db]
    ELSE IF db.auction.status # "draft" THEN [err |-> "AUCTION_NOT_DRAFT", db |-> db]
    ELSE [err |-> "OK",
          db |-> [db EXCEPT !.auction =
                     [@ EXCEPT !.status = "running",
                               !.currentRound = 1,
                               !.currentRoundStartedAt = now,
                               !.currentRoundEndsAt = now + db.auction.roundDurationSec,
                               !.currentRoundExtendedBySec = 0,
                               !.settling = FALSE,
                               !.settlingLockId = NoLock,
                               !.settlingAt = Null]]]

----------------------------------------------------------------------------
\* AuctionService.placeBid.

\* A variant of AntiSnipe that adds extensionSec whatever was added before.
AntiSnipeNoCap(a, now) ==
    IF /\ a.antiSnipeWindowSec > 0 /\ a.antiSnipeExtensionSec > 0
       /\ now >= a.currentRoundEndsAt - a.antiSnipeWindowSec
    THEN [a EXCEPT !.currentRoundEndsAt = @ + a.antiSnipeExtensionSec,
                   !.currentRoundExtendedBySec = @ + a.antiSnipeExtensionSec]
    ELSE a

\* A variant of AntiSnipe whose window starts strictly after the threshold.
AntiSnipeAfterThreshold(a, now) ==
    LET remainingExt == Max(0, a.antiSnipeMaxTotalExtensionSec - a.currentRoundExtendedBySec)
        add == IF a.antiSnipeMaxTotalExtensionSec = 0 THEN a.antiSnipeExtensionSec
               ELSE Min(a.antiSnipeExtensionSec, remainingExt)
    IN  IF /\ a.antiSnipeWindowSec > 0 /\ a.antiSnipeExtensionSec > 0
           /\ now > a.currentRoundEndsAt - a.antiSnipeWindowSec /\ add > 0
        THEN [a EXCEPT !.currentRoundEndsAt = @ + add,
                       !.currentRoundExtendedBySec = @ + add]
        ELSE a

\* A variant of AntiSnipe that moves the round's end and leaves the extension
\* counter as it is.
AntiSnipeEndOnly(a, now) ==
    LET remainingExt == Max(0, a.antiSnipeMaxTotalExtensionSec - a.currentRoundExtendedBySec)
        add == IF a.antiSnipeMaxTotalExtensionSec = 0 THEN a.antiSnipeExtensionSec
               ELSE Min(a.antiSnipeExtensionSec, remainingExt)
    IN  IF /\ a.antiSnipeWindowSec > 0 /\ a.antiSnipeExtensionSec > 0
           /\ now >= a.currentRoundEndsAt - a.antiSnipeWindowSec /\ add > 0
        THEN [a EXCEPT !.currentRoundEndsAt = @ + add]
        ELSE a

\* The anti-sniping block: extends the round when the bid lands in the window.
AntiSnipe(a, now) ==
    LET endsAt == a.currentRoundEndsAt
        windowSec == a.antiSnipeWindowSec
        extensionSec == a.antiSnipeExtensionSec
        maxTotalExt == a.antiSnipeMaxTotalExtensionSec
        threshold == endsAt - windowSec
        remainingExt == Max(0, maxTotalExt - a.currentRoundExtendedBySec)
        add == IF maxTotalExt = 0 THEN extensionSec ELSE Min(extensionSec, remainingExt)
    IN  IF windowSec > 0 /\ extensionSec > 0 /\ now >= threshold /\ add > 0
        THEN [a EXCEPT !.currentRoundEndsAt = endsAt + add,
                       !.currentRoundExtendedBySec = @ + add]
        ELSE a

\* A variant of PrevAmount that counts only an active row.
PrevAmountOfActive(b, userId, entryId) ==
    IF <<userId, entryId>> \in DOMAIN b /\ b[<<userId, entryId>>].active
    THEN b[<<userId, entryId>>].amountCents
    ELSE 0

\* prev: the amount of the stored row for the entry, whatever its active flag.
PrevAmount(b, userId, entryId) ==
    IF <<userId, entryId>> \in DOMAIN b THEN b[<<userId, entryId>>].amountCents ELSE 0

\* A variant of PlaceBidBody that still takes a bid at the round's end instant.
PlaceBidBodyAtEndInstant(db, auctionId, userId, entryId, amountCents, now) ==
    LET a == db.auction
        k == <<userId, entryId>>
        prev == PrevAmount(db.bids, userId, entryId)
        delta == amountCents - prev
        Fail(code) == [err |-> code, db |-> db]
    IN  IF amountCents <= 0 THEN Fail("AMOUNT_MUST_BE_POSITIVE")
        ELSE IF auctionId # AuctionId THEN Fail("AUCTION_NOT_FOUND")
        ELSE IF userId \notin DOMAIN db.wallet THEN Fail("USER_NOT_FOUND")
        ELSE IF a.status # "running" THEN Fail("AUCTION_NOT_RUNNING")
        ELSE IF a.currentRoundEndsAt = Null THEN Fail("AUCTION_ROUND_NOT_SET")
        ELSE IF a.currentRoundEndsAt < now THEN Fail("AUCTION_ROUND_ENDED")
        ELSE IF a.settling THEN Fail("AUCTION_IS_SETTLING")
        ELSE IF a.remainingItems <= 0 THEN Fail("AUCTION_ENDED")
        ELSE IF amountCents < a.minBidCents THEN Fail("BID_BELOW_MIN")
        ELSE IF amountCents <= prev THEN Fail("BID_MUST_INCREASE")
        ELSE IF db.wallet[userId].availableCents < delta
             THEN Fail("INSUFFICIENT_AVAILABLE_BALANCE")
        ELSE [err |-> "OK",
              db |-> [db EXCEPT
                        !.wallet[userId] =
                            [availableCents |-> @.availableCents - delta,
                             reservedCents |-> @.reservedCents + delta],
                        !.bids = (k :> [amountCents |-> amountCents, active |-> TRUE,
                                        lastBidAt |-> now]) @@ db.bids,
                        !.ledger = @ (+) SetToBag({LedgerRow(userId, "RESERVE", delta)}),
                        !.auction = AntiSnipe(a, now)]]

PlaceBidBody(db, auctionId, userId, entryId, amountCents, now) ==
    LET a == db.auction
        k == <<userId, entryId>>
        prev == PrevAmount(db.bids, userId, entryId)
        delta == amountCents - prev
        Fail(code) == [err |-> code, db |-> db]
    IN  IF amountCents <= 0 THEN Fail("AMOUNT_MUST_BE_POSITIVE")
        ELSE IF auctionId # AuctionId THEN Fail("AUCTION_NOT_FOUND")
        ELSE IF userId \notin DOMAIN db.wallet THEN Fail("USER_NOT_FOUND")
        ELSE IF a.status # "running" THEN Fail("AUCTION_NOT_RUNNING")
        ELSE IF a.currentRoundEndsAt = Null THEN Fail("AUCTION_ROUND_NOT_SET")
        ELSE IF a.currentRoundEndsAt <= now THEN Fail("AUCTION_ROUND_ENDED")
        ELSE IF a.settling THEN Fail("AUCTION_IS_SETTLING")
        ELSE IF a.remainingItems <= 0 THEN Fail("AUCTION_ENDED")
        ELSE IF amountCents < a.minBidCents THEN Fail("BID_BELOW_MIN")
        ELSE IF amountCents <= prev THEN Fail("BID_MUST_INCREASE")
        ELSE IF db.wallet[userId].availableCents < delta
             THEN Fail("INSUFFICIENT_AVAILABLE_BALANCE")
        ELSE [err |-> "OK",
              db |-> [db EXCEPT
                        !.wallet[userId] =
                            [availableCents |-> @.availableCents - delta,
                             reservedCents |-> @.reservedCents + delta],
                        !.bids = (k :> [amountCents |-> amountCents, active |-> TRUE,
                                        lastBidAt |-> now]) @@ db.bids,
                        !.ledger = @ (+) SetToBag({LedgerRow(userId, "RESERVE", delta)}),
                        !.auction = AntiSnipe(a, now)]]

----------------------------------------------------------------------------
\* AuctionService.settleRound.

ActiveKeys(b) == {k \in DOMAIN b : b[k].active}

\* A variant of Before that sorts on amountCents alone.
BeforeByAmount(b, k1, k2) == b[k1].amountCents > b[k2].amountCents

\* sort({ amountCents: -1, lastBidAt: 1 }): k1 comes strictly before k2.
Before(b, k1, k2) ==
    \/ b[k1].amountCents > b[k2].amountCents
    \/ b[k1].amountCents = b[k2].amountCents /\ b[k1].lastBidAt < b[k2].lastBidAt

\* Every result find({active: true}).sort(...).limit(n) can return: the first n
\* active rows in sort order; rows equal on both sort keys come in any order.
TopBids(b, n) ==
    LET act == ActiveKeys(b)
        m == Min(n, Cardinality(act))
    IN  {s \in [1..m -> act] :
            /\ \A i, j \in 1..m : i < j => s[i] # s[j] /\ ~Before(b, s[j], s[i])
            /\ \A k \in act \ {s[i] : i \in 1..m} : \A i \in 1..m : ~Before(b, k, s[i])}

\* A variant of WinnerDocs that numbers the gifts from nextGiftNumber + 1.
WinnerDocsFromNext(a, b, topBids) ==
    [i \in 1..Len(topBids) |->
        [round |-> a.currentRound,
         userId |-> topBids[i][1],
         entryId |-> topBids[i][2],
         amountCents |-> b[topBids[i]].amountCents,
         giftNumber |-> a.nextGiftNumber + i]]

\* A variant of WinnerDocs that numbers the gifts of a round from the last
\* selected bid to the first.
WinnerDocsReversed(a, b, topBids) ==
    [i \in 1..Len(topBids) |->
        [round |-> a.currentRound,
         userId |-> topBids[i][1],
         entryId |-> topBids[i][2],
         amountCents |-> b[topBids[i]].amountCents,
         giftNumber |-> a.nextGiftNumber + (Len(topBids) - i)]]

WinnerDocs(a, b, topBids) ==
    [i \in 1..Len(topBids) |->
        [round |-> a.currentRound,
         userId |-> topBids[i][1],
         entryId |-> topBids[i][2],
         amountCents |-> b[topBids[i]].amountCents,
         giftNumber |-> a.nextGiftNumber + (i - 1)]]

\* A variant of DebitReserved whose refund credits availableCents and leaves
\* reservedCents as it is.
RECURSIVE DebitReservedKeepOnRefund(_, _, _, _)
DebitReservedKeepOnRefund(w, docs, i, credit) ==
    IF i > Len(docs) THEN [ok |-> TRUE, wallet |-> w]
    ELSE LET d == docs[i]
         IN  IF d.userId \in DOMAIN w /\ w[d.userId].reservedCents >= d.amountCents
             THEN DebitReservedKeepOnRefund(
                      [w EXCEPT ![d.userId] =
                          [availableCents |-> @.availableCents + credit * d.amountCents,
                           reservedCents |-> @.reservedCents - (1 - credit) * d.amountCents]],
                      docs, i + 1, credit)
             ELSE [ok |-> FALSE, wallet |-> w]

\* A variant of DebitReserved whose filter is {_id} alone.
RECURSIVE DebitReservedUnguarded(_, _, _, _)
DebitReservedUnguarded(w, docs, i, credit) ==
    IF i > Len(docs) THEN [ok |-> TRUE, wallet |-> w]
    ELSE LET d == docs[i]
         IN  IF d.userId \in DOMAIN w
             THEN DebitReservedUnguarded(
                      [w EXCEPT ![d.userId] =
                          [availableCents |-> @.availableCents + credit * d.amountCents,
                           reservedCents |-> @.reservedCents - d.amountCents]],
                      docs, i + 1, credit)
             ELSE [ok |-> FALSE, wallet |-> w]

\* A variant of DebitReserved that credits availableCents on a charge as on a
\* refund.
RECURSIVE DebitReservedCreditsAlways(_, _, _, _)
DebitReservedCreditsAlways(w, docs, i, credit) ==
    IF i > Len(docs) THEN [ok |-> TRUE, wallet |-> w]
    ELSE LET d == docs[i]
         IN  IF d.userId \in DOMAIN w /\ w[d.userId].reservedCents >= d.amountCents
             THEN DebitReservedCreditsAlways(
                      [w EXCEPT ![d.userId] =
                          [availableCents |-> @.availableCents + d.amountCents,
                           reservedCents |-> @.reservedCents - d.amountCents]],
                      docs, i + 1, credit)
             ELSE [ok |-> FALSE, wallet |-> w]

\* updateOne({_id, reservedCents >= amount}, {$inc: {reservedCents: -amount,
\* availableCents: +credit}}) for each doc in turn; stops at the first doc whose
\* filter matches nothing.  credit is 0 for a charge and 1 for a refund.
RECURSIVE DebitReserved(_, _, _, _)
DebitReserved(w, docs, i, credit) ==
    IF i > Len(docs) THEN [ok |-> TRUE, wallet |-> w]
    ELSE LET d == docs[i]
         IN  IF d.userId \in DOMAIN w /\ w[d.userId].reservedCents >= d.amountCents
             THEN DebitReserved(
                      [w EXCEPT ![d.userId] =
                          [availableCents |-> @.availableCents + credit * d.amountCents,
                           reservedCents |-> @.reservedCents - d.amountCents]],
                      docs, i + 1, credit)
             ELSE [ok |-> FALSE, wallet |-> w]

RECURSIVE SetToSeq(_)
SetToSeq(S) ==
    IF S = {} THEN <<>>
    ELSE LET x == CHOOSE y \in S : TRUE IN <<x>> \o SetToSeq(S \ {x})

\* A variant of LedgerRows that writes the row of the first doc only.
LedgerRowsOfFirst(docs, i, type) ==
    IF i > Len(docs) THEN EmptyBag
    ELSE SetToBag({[userId |-> docs[i].userId, type |-> type,
                    amountCents |-> docs[i].amountCents]})

RECURSIVE LedgerRows(_, _, _)
LedgerRows(docs, i, type) ==
    IF i > Len(docs) THEN EmptyBag
    ELSE SetToBag({LedgerRow(docs[i].userId, type, docs[i].amountCents)})
             (+) LedgerRows(docs, i + 1, type)

\* A variant of Deactivate that leaves every bid active.
DeactivateNone(b, keys) == b

\* A variant of Deactivate that sets every bid inactive.
DeactivateAll(b, keys) == [k \in DOMAIN b |-> [b[k] EXCEPT !.active = FALSE]]

Deactivate(b, keys) ==
    [k \in DOMAIN b |-> IF k \in keys THEN [b[k] EXCEPT !.active = FALSE] ELSE b[k]]

\* A variant of LeaseFilter without the condition on currentRoundEndsAt.
LeaseFilterAnyTime(a, auctionId, now) ==
    /\ auctionId = AuctionId
    /\ a.status = "running"
    /\ a.settling # TRUE

\* Step 1: the conditional lease acquisition.
LeaseFilter(a, auctionId, now) ==
    /\ auctionId = AuctionId
    /\ a.status = "running"
    /\ a.currentRoundEndsAt # Null
    /\ a.currentRoundEndsAt <= now
    /\ a.settling # TRUE

\* A variant of ReleaseLease that leaves the lease on the document.
KeepLease(a) == a

ReleaseLease(a) ==
    [a EXCEPT !.settling = FALSE, !.settlingLockId = NoLock, !.settlingAt = Null]

\* A variant of EndAuction that ends the auction without refunding anyone.
EndAuctionNoRefund(db, a) ==
    [err |-> "OK", settled |-> TRUE,
     db |-> [db EXCEPT
               !.bids = Deactivate(@, ActiveKeys(@)),
               !.auction = ReleaseLease(
                   [a EXCEPT !.status = "ended",
                             !.currentRoundEndsAt = Null,
                             !.currentRoundStartedAt = Null,
                             !.currentRoundExtendedBySec = 0])]]

\* Step 5 of settleRound: refund every bid still active, end the auction.
EndAuction(db, a) ==
    LET loserKeys == SetToSeq(ActiveKeys(db.bids))
        losers == [i \in 1..Len(loserKeys) |->
                      [userId |-> loserKeys[i][1], entryId |-> loserKeys[i][2],
                       amountCents |-> db.bids[loserKeys[i]].amountCents]]
        refunded == DebitReserved(db.wallet, losers, 1, 1)
    IN  IF ~refunded.ok
        THEN [err |-> "INVARIANT_RESERVED_LT_BID", settled |-> FALSE,
              db |-> [db EXCEPT !.wallet = refunded.wallet]]
        ELSE [err |-> "OK", settled |-> TRUE,
              db |-> [db EXCEPT
                        !.wallet = refunded.wallet,
                        !.ledger = @ (+) LedgerRows(losers, 1, "REFUND"),
                        !.bids = Deactivate(@, ActiveKeys(@)),
                        !.auction = ReleaseLease(
                            [a EXCEPT !.status = "ended",
                                      !.currentRoundEndsAt = Null,
                                      !.currentRoundStartedAt = Null,
                                      !.currentRoundExtendedBySec = 0])]]

\* A variant of NextRound that opens the new period under the old round number.
NextRoundSameNumber(db, a, now) ==
    [err |-> "OK", settled |-> TRUE,
     db |-> [db EXCEPT !.auction = ReleaseLease(
                [a EXCEPT !.currentRoundStartedAt = now,
                          !.currentRoundEndsAt = now + a.roundDurationSec,
                          !.currentRoundExtendedBySec = 0])]]

\* A variant of NextRound that carries the extension counter into the new round.
NextRoundKeepExtension(db, a, now) ==
    [err |-> "OK", settled |-> TRUE,
     db |-> [db EXCEPT !.auction = ReleaseLease(
                [a EXCEPT !.currentRound = @ + 1,
                          !.currentRoundStartedAt = now,
                          !.currentRoundEndsAt = now + a.roundDurationSec])]]

\* A variant of NextRound whose new round ends at now.
NextRoundEndsNow(db, a, now) ==
    [err |-> "OK", settled |-> TRUE,
     db |-> [db EXCEPT !.auction = ReleaseLease(
                [a EXCEPT !.currentRound = @ + 1,
                          !.currentRoundStartedAt = now,
                          !.currentRoundEndsAt = now,
                          !.currentRoundExtendedBySec = 0])]]

\* The end of settleRound: advance to the next round.
NextRound(db, a, now) ==
    [err |-> "OK", settled |-> TRUE,
     db |-> [db EXCEPT !.auction = ReleaseLease(
                [a EXCEPT !.currentRound = @ + 1,
                          !.currentRoundStartedAt = now,
                          !.currentRoundEndsAt = now + a.roundDurationSec,
                          !.currentRoundExtendedBySec = 0])]]

\* A variant of SettleRoundBody that counts the items offered in the round, not
\* the winners found, off remainingItems and onto nextGiftNumber.
SettleRoundBodyCountsOffered(db, auctionId, now, lockId, topBids) ==
    IF ~LeaseFilter(db.auction, auctionId, now)
    THEN [err |-> "OK", settled |-> FALSE, db |-> db]
    ELSE
    LET locked == [db.auction EXCEPT !.settling = TRUE, !.settlingLockId = lockId,
                                     !.settlingAt = now]
        winnersDocs == WinnerDocs(locked, db.bids, topBids)
        docSet == {winnersDocs[i] : i \in 1..Len(winnersDocs)}
        charged == DebitReserved(db.wallet, winnersDocs, 1, 0)
        db3 == [db EXCEPT !.auction = locked,
                          !.winners = @ \cup docSet,
                          !.wallet = charged.wallet,
                          !.ledger = @ (+) LedgerRows(winnersDocs, 1, "CHARGE"),
                          !.bids = Deactivate(@, {topBids[i] : i \in 1..Len(topBids)})]
        offered == Min(locked.itemsPerRound, locked.remainingItems)
        counted == [locked EXCEPT !.remainingItems = @ - offered,
                                  !.nextGiftNumber = @ + offered]
    IN  IF ~charged.ok
        THEN [err |-> "INVARIANT_RESERVED_LT_BID", settled |-> FALSE, db |-> db3]
        ELSE IF counted.remainingItems <= 0 THEN EndAuction(db3, counted)
        ELSE NextRound(db3, counted, now)

\* The transaction callback of settleRound.  topBids is the result of the winner
\* query, one of TopBids(db.bids, winnersCount).  On an error the record holds
\* the writes made up to the throw; the transaction discards them.
SettleRoundBody(db, auctionId, now, lockId, topBids) ==
    IF ~LeaseFilter(db.auction, auctionId, now)
    THEN [err |-> "OK", settled |-> FALSE, db |-> db]
    ELSE
    LET locked == [db.auction EXCEPT !.settling = TRUE, !.settlingLockId = lockId,
                                     !.settlingAt = now]
        winnersDocs == WinnerDocs(locked, db.bids, topBids)
        docSet == {winnersDocs[i] : i \in 1..Len(winnersDocs)}
        dupKey == \/ \E d \in docSet : \E w \in db.winners : w.giftNumber = d.giftNumber
                  \/ \E i, j \in 1..Len(winnersDocs) :
                         i # j /\ winnersDocs[i].giftNumber = winnersDocs[j].giftNumber
        charged == DebitReserved(db.wallet, winnersDocs, 1, 0)
        db0 == [db EXCEPT !.auction = locked]
        db1 == [db0 EXCEPT !.winners = @ \cup docSet]
        db2 == [db1 EXCEPT !.wallet = charged.wallet]
        db3 == [db2 EXCEPT !.ledger = @ (+) LedgerRows(winnersDocs, 1, "CHARGE"),
                           !.bids = Deactivate(@, {topBids[i] : i \in 1..Len(topBids)})]
        counted == [locked EXCEPT !.remainingItems = @ - Len(winnersDocs),
                                  !.nextGiftNumber = @ + Len(winnersDocs)]
    IN  IF dupKey THEN [err |-> "E11000_DUPLICATE_KEY", settled |-> FALSE, db |-> db0]
        ELSE IF ~charged.ok
             THEN [err |-> "INVARIANT_RESERVED_LT_BID", settled |-> FALSE, db |-> db2]
        ELSE IF counted.remainingItems <= 0 THEN EndAuction(db3, counted)
        ELSE NextRound(db3, counted, now)

\* A variant of WinnersCount that ignores the items left.
WinnersCountPerRound(a) == a.itemsPerRound

\* The number of winners the query is limited to.
WinnersCount(a) == Min(a.itemsPerRound, a.remainingItems)

----------------------------------------------------------------------------
\* The service calls as functions of the database: the error code ("OK" when
\* the call returns) and the committed database after the call ran alone.

\* A variant of WithTransaction that keeps the writes of a callback that threw.
WithTransactionNoRollback(db, r) == r.db

\* session.withTransaction: the committed database after a callback that
\* returned r, started from database db.  The writes are committed when the
\* callback returns and discarded when it throws.
WithTransaction(db, r) == IF r.err = "OK" THEN r.db ELSE db

createUser(db, username) ==
    LET r == CreateUserBody(db, username)
    IN  [err |-> r.err, db |-> r.db]

topup(db, userId, amountCents) ==
    LET r == TopupBody(db, userId, amountCents)
    IN  [err |-> r.err, db |-> WithTransaction(db, r)]

startAuction(db, auctionId, now) ==
    LET r == StartAuctionBody(db, auctionId, now)
    IN  [err |-> r.err, db |-> WithTransaction(db, r)]

\* A variant of placeBid that reserves outside the transaction, before the
\* balance check.
placeBidNoSession(db, auctionId, userId, entryId, amountCents, now) ==
    LET r == PlaceBidBody(db, auctionId, userId, entryId, amountCents, now)
        delta == amountCents - PrevAmount(db.bids, userId, entryId)
    IN  IF r.err = "INSUFFICIENT_AVAILABLE_BALANCE"
        THEN [err |-> r.err,
              db |-> [db EXCEPT !.wallet[userId].reservedCents = @ + delta]]
        ELSE [err |-> r.err, db |-> WithTransaction(db, r)]

placeBid(db, auctionId, userId, entryId, amountCents, now) ==
    LET r == PlaceBidBody(db, auctionId, userId, entryId, amountCents, now)
    IN  [err |-> r.err, db |-> WithTransaction(db, r)]

\* The best-effort unlock after a failed settlement.
Unlock(a, auctionId, lockId) ==
    IF auctionId = AuctionId /\ a.settling = TRUE /\ a.settlingLockId = lockId
    THEN ReleaseLease(a)
    ELSE a

settleRound(db, auctionId, now, lockId, topBids) ==
    LET r == SettleRoundBody(db, auctionId, now, lockId, topBids)
        committed == WithTransaction(db, r)
    IN  [err |-> r.err, settled |-> r.settled,
         db |-> IF r.err = "OK" THEN committed
                ELSE [committed EXCEPT !.auction = Unlock(@, auctionId, lockId)]]

----------------------------------------------------------------------------
\* The bounds of a run, by its mode.

Serial == mode = "serial"
Concurrent == mode = "concurrent"

RunMaxTicks == IF Serial THEN MaxTicks ELSE ConcMaxTicks
RunTickSec == IF Serial THEN TickSec ELSE ConcTickSec
RunMaxFunds == IF Serial THEN MaxFunds ELSE ConcMaxFunds

\* The sum of amountCents over the rows of a bag that are in the set rows.
RECURSIVE SumRows(_, _)
SumRows(bag, rows) ==
    IF rows = {} THEN 0
    ELSE LET r == CHOOSE x \in rows : TRUE
         IN  r.amountCents * CopiesIn(r, bag) + SumRows(bag, rows \ {r})

LedgerSum(bag, userId, type) ==
    SumRows(bag, {r \in BagToSet(bag) : r.userId = userId /\ r.type = type})

\* All the money credited so far, over all users.
TotalCredited(bag) == SumRows(bag, {r \in BagToSet(bag) : r.type = "TOPUP"})

----------------------------------------------------------------------------
\* Concurrent transactions.  Each worker runs one transaction at a time.  A
\* transaction reads the snapshot taken at its first operation and commits only
\* when no document it writes was written by a transaction that committed after
\* that snapshot (MongoDB raises a write conflict, and session.withTransaction
\* runs the callback again, on a new snapshot).

AuctionDoc == <<"auction", "-", "-">>
UserDoc(userId) == <<"user", userId, "-">>
BidDoc(k) == <<"bid", k[1], k[2]>>
WinnerDoc(giftNumber) == <<"winner", ToString(giftNumber), "-">>

\* The documents a callback wrote: those that differ between the snapshot it
\* started from and its result (unique index entries included).
WriteSet(old, new) ==
    (IF old.auction # new.auction THEN {AuctionDoc} ELSE {})
    \cup {UserDoc(u) : u \in {x \in DOMAIN new.wallet :
                                 x \notin DOMAIN old.wallet \/ old.wallet[x] # new.wallet[x]}}
    \cup {BidDoc(k) : k \in {x \in DOMAIN new.bids :
                                x \notin DOMAIN old.bids \/ old.bids[x] # new.bids[x]}}
    \cup {WinnerDoc(w.giftNumber) : w \in new.winners \ old.winners}

\* A variant of WriteConflict for a store that detects no conflict.
NoWriteConflict(writes, stale) == FALSE

\* Whether a write to one of these documents raises a write conflict.
WriteConflict(writes, stale) == writes \cap stale # {}

\* The committed database after a transaction from snapshot old with result new
\* commits on the current database cur.
Merge(cur, old, new) ==
    LET writes == WriteSet(old, new)
    IN  [auction |-> IF AuctionDoc \in writes THEN new.auction ELSE cur.auction,
         wallet |-> [u \in DOMAIN cur.wallet \cup DOMAIN new.wallet |->
                        IF UserDoc(u) \in writes \/ u \notin DOMAIN cur.wallet
                        THEN new.wallet[u] ELSE cur.wallet[u]],
         bids |-> [x \in DOMAIN cur.bids \cup DOMAIN new.bids |->
                      IF BidDoc(x) \in writes \/ x \notin DOMAIN cur.bids
                      THEN new.bids[x] ELSE cur.bids[x]],
         winners |-> cur.winners \cup (new.winners \ old.winners),
         ledger |-> cur.ledger (+) (new.ledger (-) old.ledger)]

\* A worker with no transaction in flight.
NoTxn ==
    [op |-> "none", userId |-> "-", entryId |-> "-", amountCents |-> 0, now |-> 0,
     snap |-> <<>>, stale |-> {}]

\* The result of a transaction's callback on its snapshot.
TxnResult(t, topBids) ==
    IF t.op = "placeBid"
    THEN PlaceBidBody(t.snap, AuctionId, t.userId, t.entryId, t.amountCents, t.now)
    ELSE SettleRoundBody(t.snap, AuctionId, t.now, t.userId, topBids)

TxnTopBids(t) ==
    IF t.op = "settleRound"
    THEN TopBids(t.snap.bids, WinnersCount(t.snap.auction))
    ELSE {<<>>}

\* Every other transaction in flight sees the documents written as changed
\* since its snapshot.
MarkStale(w, writes) ==
    [x \in Workers |->
        IF x = w \/ txns[x].op = "none" THEN txns[x]
        ELSE [txns[x] EXCEPT !.stale = @ \cup writes]]

----------------------------------------------------------------------------
\* Actions.

Install(db) ==
    /\ auction' = db.auction
    /\ wallet' = db.wallet
    /\ bids' = db.bids
    /\ winners' = db.winners
    /\ ledger' = db.ledger

\* A call that runs alone: the transactions in flight see the documents it
\* wrote as changed.
RunAlone(db) ==
    /\ Install(db)
    /\ txns' = MarkStale("-", WriteSet(DB, db))

Tick ==
    /\ clock < RunMaxTicks * RunTickSec
    /\ clock' = clock + RunTickSec
    /\ UNCHANGED <<auction, wallet, bids, winners, ledger, settledRounds, txns, mode, fleet, sched>>

\* createUser is one insert.  topup and startAuction write every document they
\* read, so a committed one has the outcome of running alone at its commit.
CreateUser(username) ==
    /\ RunAlone(createUser(DB, username).db)
    /\ UNCHANGED <<clock, settledRounds, mode, fleet, sched>>

Topup(userId, amountCents) ==
    /\ TotalCredited(ledger) + amountCents <= RunMaxFunds
    /\ RunAlone(topup(DB, userId, amountCents).db)
    /\ UNCHANGED <<clock, settledRounds, mode, fleet, sched>>

StartAuction(auctionId) ==
    /\ RunAlone(startAuction(DB, auctionId, clock).db)
    /\ UNCHANGED <<clock, settledRounds, mode, fleet, sched>>

\* Serial runs: placeBid and settleRound from call to return.
PlaceBid(auctionId, userId, entryId, amountCents) ==
    /\ Serial
    /\ Install(placeBid(DB, auctionId, userId, entryId, amountCents, clock).db)
    /\ UNCHANGED <<clock, settledRounds, txns, mode, fleet, sched>>

SettleRound(auctionId, lockId) ==
    /\ Serial
    /\ \E topBids \in TopBids(bids, WinnersCount(auction)) :
        LET r == settleRound(DB, auctionId, clock, lockId, topBids)
        IN  /\ Install(r.db)
            /\ settledRounds' = IF r.settled THEN Append(settledRounds, auction.currentRound)
                                ELSE settledRounds
    /\ UNCHANGED <<clock, txns, mode, fleet, sched>>

\* Concurrent runs.  A call whose callback throws on its first snapshot changes
\* nothing, as in a serial run: the calls started here are those that get past
\* their checks, followed through conflicts and retries, where they may throw.
BeginPlaceBid(w, userId, entryId, amountCents) ==
    /\ Concurrent
    /\ txns[w].op = "none"
    /\ PlaceBidBody(DB, AuctionId, userId, entryId, amountCents, clock).err = "OK"
    /\ txns' = [txns EXCEPT ![w] =
                   [op |-> "placeBid", userId |-> userId, entryId |-> entryId,
                    amountCents |-> amountCents, now |-> clock, snap |-> DB, stale |-> {}]]
    /\ UNCHANGED <<auction, wallet, bids, winners, ledger, clock, settledRounds, mode, fleet, sched>>

\* settleRound(auctionId, now) as the scheduler calls it: now is the scheduler's
\* clock reading; the lock id (a fresh ulid) is the worker's name.
BeginSettleRound(w) ==
    /\ Concurrent
    /\ txns[w].op = "none"
    /\ LeaseFilter(auction, AuctionId, clock)
    /\ txns' = [txns EXCEPT ![w] =
                   [op |-> "settleRound", userId |-> w, entryId |-> "-",
                    amountCents |-> 0, now |-> clock, snap |-> DB, stale |-> {}]]
    /\ UNCHANGED <<auction, wallet, bids, winners, ledger, clock, settledRounds, mode, fleet, sched>>

\* The callback returned and the commit went through.
Commit(w) ==
    /\ txns[w].op # "none"
    /\ \E topBids \in TxnTopBids(txns[w]) :
        LET t == txns[w]
            r == TxnResult(t, topBids)
            writes == WriteSet(t.snap, r.db)
        IN  /\ r.err = "OK"
            /\ ~WriteConflict(writes, t.stale)
            /\ Install(Merge(DB, t.snap, r.db))
            /\ settledRounds' =
                   IF t.op = "settleRound" /\ r.settled
                   THEN Append(settledRounds, t.snap.auction.currentRound)
                   ELSE settledRounds
            /\ txns' = [MarkStale(w, writes) EXCEPT ![w] = NoTxn]
    /\ UNCHANGED <<clock, mode, fleet, sched>>

\* The callback threw: the transaction aborts and the call fails.  A failed
\* settleRound then tries its best-effort unlock, outside any transaction.
Abort(w) ==
    /\ txns[w].op # "none"
    /\ \E topBids \in TxnTopBids(txns[w]) :
        LET t == txns[w]
            r == TxnResult(t, topBids)
            unlocked == IF t.op = "settleRound" THEN Unlock(auction, AuctionId, t.userId)
                        ELSE auction
        IN  /\ r.err # "OK"
            /\ auction' = unlocked
            /\ txns' = [MarkStale(w, IF unlocked # auction THEN {AuctionDoc} ELSE {})
                           EXCEPT ![w] = NoTxn]
    /\ UNCHANGED <<wallet, bids, winners, ledger, clock, settledRounds, mode, fleet, sched>>

\* A write conflict: withTransaction runs the callback again on a new snapshot.
\* placeBid reads the clock again; settleRound keeps the now it was called with.
Retry(w) ==
    /\ txns[w].op # "none"
    /\ \E topBids \in TxnTopBids(txns[w]) :
        LET t == txns[w]
            r == TxnResult(t, topBids)
        IN  /\ r.err = "OK"
            /\ WriteConflict(WriteSet(t.snap, r.db), t.stale)
            /\ txns' = [txns EXCEPT ![w] =
                           [t EXCEPT !.snap = DB, !.stale = {},
                                     !.now = IF t.op = "settleRound" THEN t.now ELSE clock]]
    /\ UNCHANGED <<auction, wallet, bids, winners, ledger, clock, settledRounds, mode, fleet, sched>>

Init ==
    /\ mode \in {"serial", "concurrent"}
    /\ \E input \in IF Serial THEN AuctionInputs ELSE ConcAuctionInputs :
           /\ CreateAuctionErr(input) = "OK"
           /\ auction = CreateAuction(input)
    /\ wallet = <<>>
    /\ bids = <<>>
    /\ winners = {}
    /\ ledger = EmptyBag
    /\ clock = 0
    /\ settledRounds = <<>>
    /\ txns = [w \in Workers |-> NoTxn]
    /\ fleet = <<>>
    /\ sched = <<>>

Next ==
    \/ Tick
    \/ \E username \in UserIds : CreateUser(username)
    \/ \E userId \in UserIds, amountCents \in TopupAmounts : Topup(userId, amountCents)
    \/ \E auctionId \in {AuctionId, MissingId} : StartAuction(auctionId)
    \/ \E auctionId \in {AuctionId, MissingId}, k \in BidKeys, amountCents \in BidAmounts :
           PlaceBid(auctionId, k[1], k[2], amountCents)
    \/ \E auctionId \in {AuctionId, MissingId} : SettleRound(auctionId, "w1")
    \/ \E w \in Workers, k \in ConcBidKeys, amountCents \in ConcBidAmounts :
           BeginPlaceBid(w, k[1], k[2], amountCents)
    \/ \E w \in Workers : BeginSettleRound(w)
    \/ \E w \in Workers : Commit(w)
    \/ \E w \in Workers : Abort(w)
    \/ \E w \in Workers : Retry(w)

Spec == Init /\ [][Next]_vars

----------------------------------------------------------------------------
\* The Scheduler over a fleet of auctions (SchedulerSpec).  The users and the
\* ledger are the collections of Spec (wallet, ledger); every auction has its
\* own document, bids and winners.  Calls and transactions run one at a time;
\* what is concurrent here is the timer, the 20 s timeout and the
\* settleDueAuctions invocations, which advance one database call at a time
\* while the clock moves on.

MaxFleetTicks == 2      \* clock ticks of a scheduler run
MaxFleetFunds == 2      \* money topped up in a scheduler run

FleetTickSec == MinRoundDurationSec
StaleLeaseSec == 120
TickTimeoutSec == 20

FleetIds == {"a1", "a2"}
FleetUserIds == {"alice"}
FleetEntryIds == {"default"}
FleetBidAmounts == 1..MaxFleetFunds
FleetBidIds == {"a1"}    \* the auction that receives bids; "a2" runs without bidders
Invocations == {1, 2}    \* the settleDueAuctions invocations in flight that are followed

FleetInput(id) ==
    IF id = "a1" THEN Input(2, 1, 10, 1, SnipeOff) ELSE Input(1, 1, 10, 1, SnipeOff)

\* The database as a call on auction id sees it.
FleetDB(id) ==
    [auction |-> fleet[id].auction, wallet |-> wallet, bids |-> fleet[id].bids,
     winners |-> fleet[id].winners, ledger |-> ledger]

InstallFleet(id, db) ==
    /\ fleet' = [fleet EXCEPT ![id] =
                    [auction |-> db.auction, bids |-> db.bids, winners |-> db.winners]]
    /\ wallet' = db.wallet
    /\ ledger' = db.ledger

\* A variant of StaleSweep that releases every lease, whatever its age.
StaleSweepAnyAge(f, now) ==
    [id \in DOMAIN f |->
        IF f[id].auction.status = "running" /\ f[id].auction.settling = TRUE
        THEN [f[id] EXCEPT !.auction = ReleaseLease(@)]
        ELSE f[id]]

\* settleDueAuctions, first call: the updateMany that releases stale leases.
StaleSweep(f, now) ==
    LET staleCutoff == now - StaleLeaseSec
    IN  [id \in DOMAIN f |->
            IF /\ f[id].auction.status = "running"
               /\ f[id].auction.settling = TRUE
               /\ f[id].auction.settlingAt # Null
               /\ f[id].auction.settlingAt <= staleCutoff
            THEN [f[id] EXCEPT !.auction = ReleaseLease(@)]
            ELSE f[id]]

\* settleDueAuctions, second call: the ids of the auctions found due.
DueIds(f, now) ==
    {id \in DOMAIN f : /\ f[id].auction.status = "running"
                       /\ f[id].auction.currentRoundEndsAt # Null
                       /\ f[id].auction.currentRoundEndsAt <= now}

\* The orders in which the find can return the due auctions.
DueLists(f, now) ==
    LET ids == DueIds(f, now)
    IN  {q \in UNION {[1..n -> ids] : n \in {Cardinality(ids)}} :
             \A i, j \in DOMAIN q : i # j => q[i] # q[j]}

\* An invocation of settleDueAuctions: where it is, the now it read, the due
\* list it found, the auctions it has called settleRound for and those whose
\* settleRound threw, and whether the tick that started it still awaits it.
NoInvocation ==
    [pc |-> "idle", now |-> 0, due |-> <<>>, i |-> 1, failed |-> {}, awaited |-> FALSE]

\* A variant of CaughtFailure for a loop without the try/catch: the throw ends
\* the invocation.
UncaughtFailure(inv, id) ==
    [inv EXCEPT !.failed = @ \cup {id}, !.i = Len(inv.due) + 1]

\* The catch inside the loop: the failure is logged and the loop goes on.
CaughtFailure(inv, id) ==
    [inv EXCEPT !.failed = @ \cup {id}, !.i = @ + 1]

\* The tick's finally block: the tick stops awaiting invocation i, and running
\* is reset.
TickEnds(sc, i) == [sc EXCEPT !.running = FALSE, !.invs[i].awaited = FALSE]

InFlight(sc) == {i \in Invocations : sc.invs[i].pc # "idle"}

FleetTick(d) ==
    /\ clock + d <= MaxFleetTicks * FleetTickSec + StaleLeaseSec
    /\ d = StaleLeaseSec => clock = MaxFleetTicks * FleetTickSec
    /\ d = FleetTickSec => clock < MaxFleetTicks * FleetTickSec
    /\ clock' = clock + d
    /\ UNCHANGED <<auction, wallet, bids, winners, ledger, settledRounds, txns, mode,
                   fleet, sched>>

FleetCreateUser(username) ==
    /\ wallet' = createUser(DB, username).db.wallet
    /\ UNCHANGED <<auction, bids, winners, ledger, clock, settledRounds, txns, mode,
                   fleet, sched>>

FleetTopup(userId, amountCents) ==
    /\ TotalCredited(ledger) + amountCents <= MaxFleetFunds
    /\ LET r == topup(DB, userId, amountCents)
       IN  wallet' = r.db.wallet /\ ledger' = r.db.ledger
    /\ UNCHANGED <<auction, bids, winners, clock, settledRounds, txns, mode, fleet, sched>>

FleetStartAuction(id) ==
    /\ InstallFleet(id, startAuction(FleetDB(id), AuctionId, clock).db)
    /\ UNCHANGED <<auction, bids, winners, clock, settledRounds, txns, mode, sched>>

FleetPlaceBid(id, userId, entryId, amountCents) ==
    /\ InstallFleet(id, placeBid(FleetDB(id), AuctionId, userId, entryId, amountCents,
                                 clock).db)
    /\ UNCHANGED <<auction, bids, winners, clock, settledRounds, txns, mode, sched>>

\* The setInterval callback.  While running is set it returns at once;
\* otherwise it sets running and calls settleDueAuctions, which reads the clock.
TimerFires ==
    /\ sched.timer
    /\ IF sched.running THEN UNCHANGED sched
       ELSE \E i \in Invocations :
                /\ sched.invs[i].pc = "idle"
                /\ \A j \in Invocations : j < i => sched.invs[j].pc # "idle"
                /\ sched' = [sched EXCEPT
                                !.running = TRUE,
                                !.invs[i] = [NoInvocation EXCEPT !.pc = "sweep",
                                                                 !.now = clock,
                                                                 !.awaited = TRUE]]
    /\ UNCHANGED <<auction, wallet, bids, winners, ledger, clock, settledRounds, txns,
                   mode, fleet>>

SweepStale(i) ==
    /\ sched.invs[i].pc = "sweep"
    /\ fleet' = StaleSweep(fleet, sched.invs[i].now)
    /\ sched' = [sched EXCEPT !.invs[i].pc = "find"]
    /\ UNCHANGED <<auction, wallet, bids, winners, ledger, clock, settledRounds, txns,
                   mode>>

FindDue(i) ==
    /\ sched.invs[i].pc = "find"
    /\ \E due \in DueLists(fleet, sched.invs[i].now) :
           sched' = [sched EXCEPT !.invs[i].pc = "settle", !.invs[i].due = due]
    /\ UNCHANGED <<auction, wallet, bids, winners, ledger, clock, settledRounds, txns,
                   mode, fleet>>

\* One turn of the loop: settleRound(a._id, now) inside the try/catch.
SettleNext(i) ==
    LET inv == sched.invs[i]
    IN  /\ inv.pc = "settle"
        /\ inv.i <= Len(inv.due)
        /\ LET id == inv.due[inv.i]
           IN  \E topBids \in TopBids(fleet[id].bids, WinnersCount(fleet[id].auction)) :
                   LET r == settleRound(FleetDB(id), AuctionId, inv.now, "w1", topBids)
                   IN  /\ InstallFleet(id, r.db)
                       /\ sched' = [sched EXCEPT !.invs[i] =
                                       IF r.err = "OK" THEN [inv EXCEPT !.i = @ + 1]
                                       ELSE CaughtFailure(inv, id)]
        /\ UNCHANGED <<auction, bids, winners, clock, settledRounds, txns, mode>>

\* settleDueAuctions returns.  The tick that still awaits it runs its finally
\* block; after a timeout nothing awaits it any more.
InvocationReturns(i) ==
    LET inv == sched.invs[i]
    IN  /\ inv.pc = "settle"
        /\ inv.i > Len(inv.due)
        /\ sched' = [(IF inv.awaited THEN TickEnds(sched, i) ELSE sched)
                        EXCEPT !.invs[i] = NoInvocation]
        /\ UNCHANGED <<auction, wallet, bids, winners, ledger, clock, settledRounds,
                       txns, mode, fleet>>

\* withTimeout: 20 s after the tick started the race is lost to the timer, the
\* tick logs the failure and runs its finally block; the invocation goes on.
TickTimeout(i) ==
    /\ sched.invs[i].pc # "idle"
    /\ sched.invs[i].awaited
    /\ clock >= sched.invs[i].now + TickTimeoutSec
    /\ sched' = TickEnds(sched, i)
    /\ UNCHANGED <<auction, wallet, bids, winners, ledger, clock, settledRounds, txns,
                   mode, fleet>>

SchedulerInit ==
    /\ mode = "fleet"
    /\ auction = CreateAuction(FleetInput("a1"))
    /\ bids = <<>>
    /\ winners = {}
    /\ wallet = <<>>
    /\ ledger = EmptyBag
    /\ clock = 0
    /\ settledRounds = <<>>
    /\ txns = [w \in Workers |-> NoTxn]
    /\ fleet = [id \in FleetIds |->
                   [auction |-> CreateAuction(FleetInput(id)), bids |-> <<>>,
                    winners |-> {}]]
    /\ sched = [timer |-> TRUE, running |-> FALSE,
                invs |-> [i \in Invocations |-> NoInvocation]]

SchedulerNext ==
    \/ \E d \in {FleetTickSec, StaleLeaseSec} : FleetTick(d)
    \/ \E username \in FleetUserIds : FleetCreateUser(username)
    \/ \E userId \in FleetUserIds : FleetTopup(userId, 1)
    \/ \E id \in FleetIds : FleetStartAuction(id)
    \/ \E id \in FleetBidIds, userId \in FleetUserIds, entryId \in FleetEntryIds,
          amountCents \in FleetBidAmounts :
           FleetPlaceBid(id, userId, entryId, amountCents)
    \/ TimerFires
    \/ \E i \in Invocations : SweepStale(i)
    \/ \E i \in Invocations : FindDue(i)
    \/ \E i \in Invocations : SettleNext(i)
    \/ \E i \in Invocations : InvocationReturns(i)
    \/ \E i \in Invocations : TickTimeout(i)

SchedulerSpec == SchedulerInit /\ [][SchedulerNext]_vars

----------------------------------------------------------------------------
\* Properties.

RECURSIVE SumAmounts(_, _)
SumAmounts(b, keys) ==
    IF keys = {} THEN 0
    ELSE LET k == CHOOSE x \in keys : TRUE
         IN  b[k].amountCents + SumAmounts(b, keys \ {k})

\* The sum of a user's active bids.
ActiveBidSum(b, userId) == SumAmounts(b, {k \in ActiveKeys(b) : k[1] = userId})

\* The calls of placeBid that callers make.
PlaceBidArgs == {AuctionId, MissingId} \X BidKeys \X BidAmounts

\* C1: in every committed state, every user's reservedCents equals the sum of
\* the amounts of that user's active bids (also after a placeBid on an entry
\* whose row exists with active = false).
C1_ReservedEqualsActiveBids ==
    \A u \in DOMAIN wallet : wallet[u].reservedCents = ActiveBidSum(bids, u)

\* C2: in every committed state every user has availableCents >= 0 and
\* reservedCents >= 0.
C2_WalletNonNegative ==
    \A u \in DOMAIN wallet :
        wallet[u].availableCents >= 0 /\ wallet[u].reservedCents >= 0

\* C2 witness: a due round whose settlement meets the reservedCents >= amount
\* filter of a debit with a reserve below the bid, and fails on it.
C2_Witness ==
    \E topBids \in TopBids(bids, WinnersCount(auction)) :
        settleRound(DB, AuctionId, clock, "w1", topBids).err = "INVARIANT_RESERVED_LT_BID"

\* C3: an ended auction has no active bid, and no user's reservedCents holds
\* funds for a bid of it.
C3_EndedAuctionHoldsNothing ==
    auction.status = "ended" =>
        /\ ActiveKeys(bids) = {}
        /\ \A u \in DOMAIN wallet : wallet[u].reservedCents = 0

\* C4: of the settleRound calls that run concurrently on a due round at most one
\* commits its settlement: the rounds settled are 1, 2, ... each once,
\* currentRound is one past them while the auction runs, a round has no more
\* winners than itemsPerRound, and there is one CHARGE per winner.
C4_RoundSettledOnce ==
    /\ \A i \in 1..Len(settledRounds) : settledRounds[i] = i
    /\ auction.currentRound =
           Len(settledRounds) + (IF auction.status = "running" THEN 1 ELSE 0)
    /\ \A w \in winners :
           Cardinality({x \in winners : x.round = w.round}) <= auction.itemsPerRound
    /\ LET charges == {r \in BagToSet(ledger) : r.type = "CHARGE"}
       IN  BagCardinality([r \in charges |-> CopiesIn(r, ledger)]) = Cardinality(winners)

\* C4 witness: a round was settled while another settleRound of the same round
\* is in flight.
C4_Witness ==
    \E w \in Workers :
        /\ txns[w].op = "settleRound"
        /\ \E i \in 1..Len(settledRounds) :
               settledRounds[i] = txns[w].snap.auction.currentRound

\* C5: each entry (userId, entryId) has at most one Winner row.
C5_EntryWinsAtMostOnce ==
    \A w1, w2 \in winners :
        (w1.userId = w2.userId /\ w1.entryId = w2.entryId) => w1 = w2

\* C6: remainingItems + (number of Winner rows) = totalItems, nextGiftNumber =
\* 1 + (number of Winner rows), and remainingItems is never negative.
C6_TotalsConserved ==
    /\ auction.remainingItems + Cardinality(winners) = auction.totalItems
    /\ auction.nextGiftNumber = 1 + Cardinality(winners)
    /\ auction.remainingItems >= 0

\* C6 witness: a round with more active bids than items left was settled: the
\* auction ended with its last item won in round 2 and a losing bid refunded.
C6_Witness ==
    /\ auction.status = "ended"
    /\ auction.itemsPerRound = 2
    /\ \E w \in winners : w.round = 2
    /\ \E r \in BagToSet(ledger) : r.type = "REFUND"

\* C7: the gift numbers of the N Winner rows are exactly 1..N, each once;
\* (giftNumber) and (round, giftNumber) are unique within the auction.
C7_GiftNumbersContiguous ==
    /\ {w.giftNumber : w \in winners} = 1..Cardinality(winners)
    /\ \A w1, w2 \in winners : w1.giftNumber = w2.giftNumber => w1 = w2
    /\ \A w1, w2 \in winners :
           (w1.round = w2.round /\ w1.giftNumber = w2.giftNumber) => w1 = w2

\* C7 witness: winners of one round and winners of two rounds.
C7_Witness ==
    \/ \E w1, w2 \in winners : w1.round = w2.round /\ w1.giftNumber # w2.giftNumber
    \/ \E w1, w2 \in winners : w1.round # w2.round

\* The error codes of placeBid.
PlaceBidErrors ==
    {"AMOUNT_MUST_BE_POSITIVE", "AUCTION_NOT_FOUND", "USER_NOT_FOUND", "AUCTION_NOT_RUNNING",
     "AUCTION_ROUND_NOT_SET", "AUCTION_ROUND_ENDED", "AUCTION_IS_SETTLING", "AUCTION_ENDED",
     "BID_BELOW_MIN", "BID_MUST_INCREASE", "INSUFFICIENT_AVAILABLE_BALANCE"}

\* A placeBid call made in the current state fails and leaves the database as
\* it was.
C8_FailedCallChangesNothing ==
    \A c \in PlaceBidArgs :
        LET r == placeBid(DB, c[1], c[2][1], c[2][2], c[3], clock)
        IN  r.err # "OK" => r.err \in PlaceBidErrors /\ r.db = DB

\* A step that ends a placeBid transaction whose callback throws (on its first
\* snapshot or on a later one) leaves the database as it was.
C8_FailedTxnChangesNothing ==
    \A w \in Workers :
        (/\ txns[w].op = "placeBid"
         /\ TxnResult(txns[w], <<>>).err # "OK"
         /\ txns'[w] = NoTxn)
        => UNCHANGED <<auction, wallet, bids, winners, ledger>>

\* C8: every placeBid call that fails, with any of its error codes, leaves the
\* wallets, the bid rows, the ledger and the auction as they were before it.
C8_FailedPlaceBidChangesNothing ==
    []C8_FailedCallChangesNothing /\ [][C8_FailedTxnChangesNothing]_vars

\* C8 witness: a placeBid transaction in flight, begun on a state that let it
\* through, whose callback now throws AUCTION_ROUND_ENDED on a new snapshot;
\* and calls that fail on the balance and on the increase checks.
C8_Witness ==
    /\ \E w \in Workers :
           /\ txns[w].op = "placeBid"
           /\ TxnResult(txns[w], <<>>).err \in {"AUCTION_ROUND_ENDED", "AUCTION_NOT_RUNNING"}
    /\ \E c \in PlaceBidArgs :
           placeBid(DB, c[1], c[2][1], c[2][2], c[3], clock).err
               \in {"INSUFFICIENT_AVAILABLE_BALANCE", "BID_MUST_INCREASE"}

\* The stored amount of an entry, 0 when it has no row.
StoredAmount(k) == IF k \in DOMAIN bids THEN bids[k].amountCents ELSE 0

\* C9: a placeBid of amount a on an entry whose stored amount is prev, past all
\* earlier checks, fails with INSUFFICIENT_AVAILABLE_BALANCE exactly when
\* availableCents < a - prev, leaving wallet and bid unchanged; otherwise it
\* moves exactly a - prev from availableCents to reservedCents.
C9_BalanceCheckAndDelta ==
    \A k \in BidKeys, a \in BidAmounts :
        LET r == placeBid(DB, AuctionId, k[1], k[2], a, clock)
            u == k[1]
            prev == StoredAmount(k)
        IN  r.err \in {"OK", "INSUFFICIENT_AVAILABLE_BALANCE"} =>
                /\ r.err = "INSUFFICIENT_AVAILABLE_BALANCE"
                       <=> wallet[u].availableCents < a - prev
                /\ r.err = "INSUFFICIENT_AVAILABLE_BALANCE" =>
                       r.db.wallet = wallet /\ r.db.bids = bids
                /\ r.err = "OK" =>
                       /\ r.db.wallet[u].availableCents = wallet[u].availableCents - (a - prev)
                       /\ r.db.wallet[u].reservedCents = wallet[u].reservedCents + (a - prev)
                       /\ \A v \in DOMAIN wallet \ {u} : r.db.wallet[v] = wallet[v]

\* C9 witness: an entry with a stored amount, raised by a call that succeeds
\* in this state, while a call by a user short of the delta fails.
C9_Witness ==
    /\ \E k \in BidKeys, a \in BidAmounts :
           /\ StoredAmount(k) > 0
           /\ placeBid(DB, AuctionId, k[1], k[2], a, clock).err = "OK"
    /\ \E k \in BidKeys, a \in BidAmounts :
           placeBid(DB, AuctionId, k[1], k[2], a, clock).err = "INSUFFICIENT_AVAILABLE_BALANCE"

\* A placeBid call with an amount not above the stored one, past the earlier
\* checks, fails with BID_MUST_INCREASE and changes neither bid nor wallet.
C10_NoIncreaseRejected ==
    \A k \in BidKeys, a \in BidAmounts :
        LET r == placeBid(DB, AuctionId, k[1], k[2], a, clock)
        IN  (/\ a <= StoredAmount(k)
             /\ r.err \notin {"AMOUNT_MUST_BE_POSITIVE", "AUCTION_NOT_FOUND", "USER_NOT_FOUND",
                              "AUCTION_NOT_RUNNING", "AUCTION_ROUND_NOT_SET",
                              "AUCTION_ROUND_ENDED", "AUCTION_IS_SETTLING", "AUCTION_ENDED",
                              "BID_BELOW_MIN"})
            => r.err = "BID_MUST_INCREASE" /\ r.db.bids = bids /\ r.db.wallet = wallet

\* Every step leaves a bid row as it is, deactivates it, or stores a strictly
\* greater amount in it; a new row holds a positive amount.
C10_AmountOnlyIncreases ==
    \A k \in DOMAIN bids' :
        IF k \in DOMAIN bids
        THEN \/ bids'[k] = bids[k]
             \/ bids'[k] = [bids[k] EXCEPT !.active = FALSE]
             \/ bids'[k].amountCents > bids[k].amountCents
        ELSE bids'[k].amountCents > 0

\* C10: for a fixed entry every successful placeBid stores an amount strictly
\* greater than the one stored before it, also when two placeBid calls on the
\* entry run concurrently; a placeBid with an amount not above the stored one
\* fails with BID_MUST_INCREASE and changes neither the bid nor the wallet.
C10_StrictBidMonotonicity ==
    []C10_NoIncreaseRejected /\ [][C10_AmountOnlyIncreases]_vars

\* C10 witness: two placeBid calls on one entry ran concurrently; one has
\* committed, and the other, with an amount not above the stored one, is in
\* flight and has seen the write.
C10_Witness ==
    \E w \in Workers :
        LET t == txns[w]
        IN  /\ t.op = "placeBid"
            /\ <<t.userId, t.entryId>> \in DOMAIN bids
            /\ <<t.userId, t.entryId>> \notin DOMAIN t.snap.bids
            /\ t.amountCents <= bids[<<t.userId, t.entryId>>].amountCents
            /\ BidDoc(<<t.userId, t.entryId>>) \in t.stale

\* C11: with antiSnipeMaxTotalExtensionSec > 0, currentRoundExtendedBySec never
\* exceeds it, whether the bids in the window run one after another or
\* concurrently.
C11_ExtensionCap ==
    auction.antiSnipeMaxTotalExtensionSec > 0 =>
        auction.currentRoundExtendedBySec <= auction.antiSnipeMaxTotalExtensionSec

\* C11 witness: the cap is used up, the round is still open, and a further bid
\* inside the window is accepted.
C11_Witness ==
    /\ auction.antiSnipeMaxTotalExtensionSec > 0
    /\ auction.currentRoundExtendedBySec = auction.antiSnipeMaxTotalExtensionSec
    /\ auction.status = "running"
    /\ clock >= auction.currentRoundEndsAt - auction.antiSnipeWindowSec
    /\ \E k \in BidKeys, a \in BidAmounts :
           placeBid(DB, AuctionId, k[1], k[2], a, clock).err = "OK"

\* Whether a bid at the clock's time lands in the anti-snipe window.
InWindow ==
    /\ auction.antiSnipeWindowSec > 0
    /\ auction.antiSnipeExtensionSec > 0
    /\ clock >= auction.currentRoundEndsAt - auction.antiSnipeWindowSec

\* The extension an in-window bid adds, as the specification words it.
ExpectedAdd ==
    LET left == auction.antiSnipeMaxTotalExtensionSec - auction.currentRoundExtendedBySec
        remaining == IF left >= 0 THEN left ELSE 0
    IN  IF auction.antiSnipeMaxTotalExtensionSec = 0 THEN auction.antiSnipeExtensionSec
        ELSE IF auction.antiSnipeExtensionSec <= remaining THEN auction.antiSnipeExtensionSec
        ELSE remaining

C13_ImmediateBidsExtendToCap ==
    LET reserves == {x \in BagToSet(ledger) : x.type = "RESERVE"}
        n == BagCardinality([r \in reserves |-> CopiesIn(r, ledger)])
    IN  (/\ auction.roundDurationSec = 10
         /\ auction.antiSnipeWindowSec = 10
         /\ auction.antiSnipeExtensionSec = 5
         /\ auction.antiSnipeMaxTotalExtensionSec = 10
         /\ auction.status = "running"
         /\ auction.currentRound = 1
         /\ clock = auction.currentRoundStartedAt
         /\ Cardinality(DOMAIN bids) = 1
         /\ n \in 1..3)
        => auction.currentRoundExtendedBySec = (IF n = 1 THEN 5 ELSE 10)

\* C14: a settleRound that settles a round makes winners of the first
\* K = min(itemsPerRound, remainingItems) active bids by amountCents descending,
\* then lastBidAt ascending (all of them when fewer exist): no active bid left
\* out has a higher amount than a winner, nor the same amount and an earlier
\* lastBidAt; each winner row carries the round and the bid's amount.
C14_WinnersAreTopBids ==
    \A topBids \in TopBids(bids, WinnersCount(auction)) :
        LET r == settleRound(DB, AuctionId, clock, "w1", topBids)
            new == r.db.winners \ winners
            act == {k \in DOMAIN bids : bids[k].active}
            won == {<<w.userId, w.entryId>> : w \in new}
            K == IF auction.itemsPerRound <= auction.remainingItems
                 THEN auction.itemsPerRound ELSE auction.remainingItems
        IN  r.settled =>
                /\ won \subseteq act
                /\ Cardinality(new) = Cardinality(won)
                /\ Cardinality(won) = (IF Cardinality(act) <= K THEN Cardinality(act) ELSE K)
                /\ \A w \in new : /\ w.round = auction.currentRound
                                  /\ w.amountCents = bids[<<w.userId, w.entryId>>].amountCents
                /\ \A x \in won, y \in act \ won :
                       /\ bids[y].amountCents <= bids[x].amountCents
                       /\ bids[y].amountCents = bids[x].amountCents
                              => bids[x].lastBidAt <= bids[y].lastBidAt

\* C14 witness: a due round with one item to give and two active bids of the
\* same amount placed at different times, which settles.
C14_Witness ==
    /\ LeaseFilter(auction, AuctionId, clock)
    /\ WinnersCount(auction) = 1
    /\ \E x, y \in ActiveKeys(bids) :
           /\ bids[x].amountCents = bids[y].amountCents
           /\ bids[x].lastBidAt < bids[y].lastBidAt
           /\ \A z \in ActiveKeys(bids) : bids[z].amountCents <= bids[x].amountCents
    /\ \E topBids \in TopBids(bids, WinnersCount(auction)) :
           settleRound(DB, AuctionId, clock, "w1", topBids).settled

\* A running auction whose round end has passed.
Due == LeaseFilter(auction, AuctionId, clock)

\* The scheduler's settleRound on the current state fails whatever the winner
\* query returns.
SettlementFails ==
    \A topBids \in TopBids(bids, WinnersCount(auction)) :
        settleRound(DB, AuctionId, clock, "w1", topBids).err # "OK"

\* C15: no reachable state of wallets and bids makes the settlement of a due
\* auction fail: in every state with a due round the scheduler's settleRound
\* advances the round or ends the auction.
C15_DueRoundCanBeSettled == Due => ~SettlementFails

\* Once the settlement of a due round fails, it is due and fails after every
\* step: no later tick settles it.
C15_FailureIsPermanent ==
    [][(Due /\ SettlementFails) => (Due /\ SettlementFails)']_vars

\* The status changes only draft -> running and running -> ended, the latter
\* with no item left.
C16_StatusMoves ==
    auction'.status # auction.status =>
        \/ auction.status = "draft" /\ auction'.status = "running"
        \/ /\ auction.status = "running" /\ auction'.status = "ended"
           /\ auction'.remainingItems = 0

\* startAuction on an auction that is not a draft fails with AUCTION_NOT_DRAFT
\* and changes nothing.
C16_StartNonDraftRejected ==
    auction.status # "draft" =>
        startAuction(DB, AuctionId, clock) = [err |-> "AUCTION_NOT_DRAFT", db |-> DB]

\* Once the auction has ended no step changes it, its bids, its winners or a
\* wallet (a topup apart, which credits availableCents).
C16_EndedIsFrozen ==
    auction.status = "ended" =>
        /\ auction' = auction
        /\ bids' = bids
        /\ winners' = winners
        /\ \A u \in DOMAIN wallet :
               \/ wallet'[u] = wallet[u]
               \/ /\ LedgerSum(ledger', u, "TOPUP") > LedgerSum(ledger, u, "TOPUP")
                  /\ wallet'[u].reservedCents = wallet[u].reservedCents

\* C16: the status only moves draft -> running -> ended; startAuction on a
\* non-draft auction fails with AUCTION_NOT_DRAFT and changes nothing; once the
\* auction has ended no operation changes it, its bids, its winners or a wallet.
C16_StatusLifecycle ==
    []C16_StartNonDraftRejected /\ [][C16_StatusMoves /\ C16_EndedIsFrozen]_vars

\* The parts of C16 that hold: the status moves and the rejected startAuction
\* in every run, and the frozen ended auction in serial runs.
C16_HoldsSerially ==
    /\ []C16_StartNonDraftRejected
    /\ [][C16_StatusMoves /\ (Serial => C16_EndedIsFrozen)]_vars

\* currentRound is 0 in a draft and at least 1 afterwards.
C17_RoundOfStatus ==
    IF auction.status = "draft" THEN auction.currentRound = 0 ELSE auction.currentRound >= 1

\* A step changes currentRound only from 0 to 1 at the start or by exactly 1
\* at a settlement that leaves items; a settlement that leaves items does
\* change it, and the end of the auction keeps it.
C17_RoundSteps ==
    /\ auction'.currentRound >= auction.currentRound
    /\ auction'.currentRound # auction.currentRound =>
           \/ /\ auction.status = "draft" /\ auction'.status = "running"
              /\ auction'.currentRound = 1
           \/ /\ auction.status = "running" /\ auction'.status = "running"
              /\ settledRounds' # settledRounds
              /\ auction'.remainingItems > 0
              /\ auction'.currentRound = auction.currentRound + 1
    /\ (settledRounds' # settledRounds /\ auction'.remainingItems > 0) =>
           auction'.currentRound = auction.currentRound + 1
    /\ auction'.status = "ended" => auction'.currentRound = auction.currentRound

\* While the auction runs currentRoundEndsAt moves only forward, by an
\* anti-snipe extension of the same round or with the advance to a new round.
C17_EndsAtSteps ==
    (auction.status = "running" /\ auction'.status = "running") =>
        /\ auction'.currentRoundEndsAt >= auction.currentRoundEndsAt
        /\ auction'.currentRoundEndsAt # auction.currentRoundEndsAt =>
               \/ auction'.currentRound = auction.currentRound + 1
               \/ /\ auction'.currentRound = auction.currentRound
                  /\ auction'.currentRoundExtendedBySec - auction.currentRoundExtendedBySec
                         = auction'.currentRoundEndsAt - auction.currentRoundEndsAt

\* C17: currentRound never decreases: 0 in draft, 1 at startAuction, plus
\* exactly 1 at each settlement that leaves remainingItems > 0, kept when the
\* auction ends; while the auction runs currentRoundEndsAt never moves backward
\* and changes only by an anti-snipe extension or a new round.
C17_RoundMonotonicity ==
    []C17_RoundOfStatus /\ [][C17_RoundSteps /\ C17_EndsAtSteps]_vars

\* C17 witness: an auction that advanced to round 2 and ended in it.
C17_Witness ==
    /\ auction.status = "ended"
    /\ auction.currentRound = 2
    /\ settledRounds = <<1, 2>>

\* The ledger rows a step adds, and how many of them a user has of one kind.
NewRows == ledger' (-) ledger

NewRowCount(userId, type) ==
    BagCardinality([r \in {x \in BagToSet(NewRows) :
                               x.userId = userId /\ x.type = type}
                       |-> CopiesIn(r, NewRows)])

\* C18: every step that changes a wallet adds, for that user, ledger rows whose
\* kinds and amounts account exactly for the change (TOPUP credits
\* availableCents, RESERVE moves it to reservedCents, CHARGE debits
\* reservedCents, REFUND moves it back), each with amountCents > 0: one row
\* for a topup or a bid, one CHARGE row per new winner, at most one REFUND row
\* per bid deactivated; no row is added without its wallet change, and no row
\* is changed or removed.
C18_LedgerCompleteness ==
    [][/\ ledger \sqsubseteq ledger'
       /\ \A r \in BagToSet(NewRows) :
              /\ r.amountCents > 0
              /\ r.type \in {"TOPUP", "RESERVE", "CHARGE", "REFUND"}
              /\ r.userId \in DOMAIN wallet
       /\ \A u \in DOMAIN wallet :
              /\ wallet'[u].availableCents - wallet[u].availableCents
                     = LedgerSum(NewRows, u, "TOPUP") - LedgerSum(NewRows, u, "RESERVE")
                           + LedgerSum(NewRows, u, "REFUND")
              /\ wallet'[u].reservedCents - wallet[u].reservedCents
                     = LedgerSum(NewRows, u, "RESERVE") - LedgerSum(NewRows, u, "CHARGE")
                           - LedgerSum(NewRows, u, "REFUND")
       /\ \A u \in DOMAIN wallet :
              /\ NewRowCount(u, "TOPUP") + NewRowCount(u, "RESERVE") <= 1
              /\ NewRowCount(u, "CHARGE")
                     = Cardinality({w \in winners' \ winners : w.userId = u})
              /\ NewRowCount(u, "REFUND")
                     <= Cardinality({k \in DOMAIN bids :
                                        k[1] = u /\ bids[k].active /\ ~bids'[k].active})
       /\ \A u \in DOMAIN wallet' \ DOMAIN wallet :
              wallet'[u] = [availableCents |-> 0, reservedCents |-> 0]]_vars

\* C18 witness: a settlement charged two winners of one round, and another
\* refunded a loser.
C18_Witness ==
    /\ \E w1, w2 \in winners : w1.round = w2.round /\ w1 # w2
    /\ \E r \in BagToSet(ledger) : r.type = "REFUND"
    /\ \E r \in BagToSet(ledger) : r.type = "CHARGE"

\* C19: every user's reservedCents = RESERVE - RELEASE - CHARGE - REFUND, summed
\* over the user's ledger rows.
C19_ReservedFromLedger ==
    \A u \in DOMAIN wallet :
        wallet[u].reservedCents =
            LedgerSum(ledger, u, "RESERVE") - LedgerSum(ledger, u, "RELEASE")
                - LedgerSum(ledger, u, "CHARGE") - LedgerSum(ledger, u, "REFUND")

\* C19 witness: a user with rows of the three kinds that move reservedCents.
C19_Witness ==
    \E u \in DOMAIN wallet :
        /\ LedgerSum(ledger, u, "RESERVE") > 0
        /\ LedgerSum(ledger, u, "CHARGE") > 0
        /\ LedgerSum(ledger, u, "REFUND") > 0

\* C20 as stated: every user's availableCents = TOPUP + REFUND - CHARGE, summed
\* over the user's ledger rows.
C20_AvailableFromLedgerAsStated ==
    \A u \in DOMAIN wallet :
        wallet[u].availableCents =
            LedgerSum(ledger, u, "TOPUP") + LedgerSum(ledger, u, "REFUND")
                - LedgerSum(ledger, u, "CHARGE")

\* C20, amended: every user's availableCents = TOPUP - RESERVE + REFUND, and
\* availableCents + reservedCents = TOPUP - CHARGE, summed over the user's
\* ledger rows.
C20_AvailableFromLedger ==
    \A u \in DOMAIN wallet :
        /\ wallet[u].availableCents =
               LedgerSum(ledger, u, "TOPUP") - LedgerSum(ledger, u, "RESERVE")
                   + LedgerSum(ledger, u, "REFUND")
        /\ wallet[u].availableCents + wallet[u].reservedCents =
               LedgerSum(ledger, u, "TOPUP") - LedgerSum(ledger, u, "CHARGE")

\* C20 witness: a user who topped up, bid, and was refunded.
C20_Witness ==
    \E u \in DOMAIN wallet :
        /\ LedgerSum(ledger, u, "TOPUP") > 0
        /\ LedgerSum(ledger, u, "RESERVE") > 0
        /\ LedgerSum(ledger, u, "REFUND") > 0

\* The codes of the conditions on the auction that a bid of amountCents at
\* instant now fails.
FailedConditions(a, now, amountCents) ==
    (IF a.status # "running" THEN {"AUCTION_NOT_RUNNING"} ELSE {})
    \cup (IF a.remainingItems <= 0 THEN {"AUCTION_ENDED"} ELSE {})
    \cup (IF a.settling THEN {"AUCTION_IS_SETTLING"} ELSE {})
    \cup (IF a.currentRoundEndsAt = Null \/ a.currentRoundEndsAt <= now
          THEN {"AUCTION_ROUND_ENDED"} ELSE {})
    \cup (IF amountCents < a.minBidCents THEN {"BID_BELOW_MIN"} ELSE {})

\* A step that stores a new bid or raises one.
BidAccepted(k) ==
    /\ k \in DOMAIN bids'
    /\ k \notin DOMAIN bids \/ bids'[k].amountCents > bids[k].amountCents

\* In every state, a placeBid of a positive amount by an existing user on the
\* auction returns OK only when no condition fails, and otherwise fails with the
\* code of a condition that fails (a running auction always has its round end).
C24_RejectionCodes ==
    \A k \in BidKeys, amountCents \in BidAmounts :
        (k[1] \in DOMAIN wallet /\ amountCents > 0) =>
            LET r == placeBid(DB, AuctionId, k[1], k[2], amountCents, clock)
                failed == FailedConditions(auction, clock, amountCents)
            IN  /\ r.err = "OK" => failed = {}
                /\ failed # {} => r.err \in failed

\* Every bid that is stored was placed by a call that read an auction passing
\* all the conditions at the instant the call read.
C24_AcceptedBidsPassed ==
    \A k \in BidKeys :
        BidAccepted(k) =>
            \/ /\ Serial
               /\ FailedConditions(auction, clock, bids'[k].amountCents) = {}
            \/ \E w \in Workers :
                   /\ txns[w].op = "placeBid" /\ txns'[w] = NoTxn
                   /\ <<txns[w].userId, txns[w].entryId>> = k
                   /\ FailedConditions(txns[w].snap.auction, txns[w].now,
                                       bids'[k].amountCents) = {}

\* C24: a placeBid commits only if, in the state it read, the auction is running
\* with remainingItems > 0, settling = false, currentRoundEndsAt > now and
\* amountCents >= minBidCents; when one of these fails the call is rejected with
\* the code of a failing condition.  No bid is accepted between a round's end
\* instant and its settlement.
C24_BidPreconditions ==
    []C24_RejectionCodes /\ [][C24_AcceptedBidsPassed]_vars

\* C24 witness: a round with an active bid has reached its end instant and is not
\* settled yet; a raise its owner can pay for is rejected with
\* AUCTION_ROUND_ENDED.
C24_Witness ==
    /\ auction.status = "running"
    /\ auction.currentRoundEndsAt <= clock
    /\ \E k \in ActiveKeys(bids), amountCents \in BidAmounts :
           /\ amountCents > bids[k].amountCents
           /\ amountCents - bids[k].amountCents <= wallet[k[1]].availableCents
           /\ placeBid(DB, AuctionId, k[1], k[2], amountCents, clock).err
                  = "AUCTION_ROUND_ENDED"

\* A settleRound transaction in flight whose conditional update matched: it
\* holds the lease (settling = true under its lock id) until it commits or aborts.
LeaseHeld(w) ==
    /\ txns[w].op = "settleRound"
    /\ LeaseFilter(txns[w].snap.auction, AuctionId, txns[w].now)

\* C25: whenever a settlement lease is held on the running auction, taken by a
\* settleRound on a round whose end instant has passed, a placeBid on that
\* auction (a positive amount, an existing user) is rejected with
\* AUCTION_IS_SETTLING.
C25_LeaseRejectsBids ==
    (auction.status = "running" /\ \E w \in Workers : LeaseHeld(w)) =>
        \A k \in BidKeys, amountCents \in BidAmounts :
            (k[1] \in DOMAIN wallet /\ amountCents > 0) =>
                placeBid(DB, AuctionId, k[1], k[2], amountCents, clock).err
                    = "AUCTION_IS_SETTLING"

\* No placeBid ever fails with AUCTION_IS_SETTLING.
C25_NeverIsSettling ==
    \A k \in BidKeys, amountCents \in BidAmounts :
        placeBid(DB, AuctionId, k[1], k[2], amountCents, clock).err # "AUCTION_IS_SETTLING"

\* C26: the operations on one user's wallet take effect one after another.  A
\* transaction that commits a change to a wallet read that wallet as it stands
\* at the commit (no operation on it was committed in between), and writes the
\* result its callback computed from it: no credit, reservation, charge or
\* refund is lost or applied twice.
C26_WalletLinearizable ==
    [][\A w \in Workers :
           (txns[w].op # "none" /\ txns'[w] = NoTxn) =>
               \A u \in DOMAIN wallet :
                   wallet'[u] # wallet[u] =>
                       /\ u \in DOMAIN txns[w].snap.wallet
                       /\ txns[w].snap.wallet[u] = wallet[u]
                       /\ \E topBids \in TxnTopBids(txns[w]) :
                              wallet'[u] = TxnResult(txns[w], topBids).db.wallet[u]]_vars

\* C26 witness: a transaction in flight is about to write a wallet that an
\* operation committed after its snapshot has changed.
C26_Witness ==
    \E w \in Workers, u \in DOMAIN wallet :
        /\ txns[w].op # "none"
        /\ UserDoc(u) \in txns[w].stale
        /\ u \in DOMAIN txns[w].snap.wallet
        /\ txns[w].snap.wallet[u] # wallet[u]
        /\ \E topBids \in TxnTopBids(txns[w]) :
               UserDoc(u) \in WriteSet(txns[w].snap, TxnResult(txns[w], topBids).db)

\* The auction document as a settleRound transaction of worker w holds it after
\* taking the lease.
Locked(w) ==
    [txns[w].snap.auction EXCEPT !.settling = TRUE, !.settlingLockId = w,
                                 !.settlingAt = txns[w].now]

\* In every state, a settleRound whose callback throws, whatever the winner query
\* returned, leaves the auction, bids, winners, wallets and ledger as they were.
C27_FailedCallChangesNothing ==
    \A topBids \in TopBids(bids, WinnersCount(auction)), lockId \in Workers :
        LET r == settleRound(DB, AuctionId, clock, lockId, topBids)
        IN  r.err # "OK" => r.db = DB

\* A settleRound transaction that ends without settling a round changes nothing.
C27_FailedTxnChangesNothing ==
    \A w \in Workers :
        (txns[w].op = "settleRound" /\ txns'[w] = NoTxn
            /\ settledRounds' = settledRounds)
        => UNCHANGED <<auction, wallet, bids, winners, ledger>>

\* The unlock releases a lease under the caller's own lock id, and leaves a lease
\* under another lock id, and an auction with no lease, as they are.
C27_UnlockOwnTokenOnly ==
    /\ \A lockId \in Workers : Unlock(auction, AuctionId, lockId) = auction
    /\ \A w \in Workers :
           LeaseHeld(w) =>
               \A lockId \in Workers :
                   Unlock(Locked(w), AuctionId, lockId) =
                       IF lockId = w THEN ReleaseLease(Locked(w)) ELSE Locked(w)

\* C27: a settleRound that fails part-way commits none of its effects (no Winner
\* row, wallet change, ledger row, bid deactivation, counter or round change),
\* and the unlock after the abort clears a lease only under the call's own
\* settlingLockId.
C27_FailedSettlementCommitsNothing ==
    /\ [](C27_FailedCallChangesNothing /\ C27_UnlockOwnTokenOnly)
    /\ [][C27_FailedTxnChangesNothing]_vars

\* C27 witness: a due round whose settlement takes the lease, inserts its Winner
\* rows and then throws INVARIANT_RESERVED_LT_BID; the call leaves the database
\* as it was.
C27_Witness ==
    \E topBids \in TopBids(bids, WinnersCount(auction)) :
        LET body == SettleRoundBody(DB, AuctionId, clock, "w1", topBids)
        IN  /\ body.err = "INVARIANT_RESERVED_LT_BID"
            /\ body.db.winners # winners
            /\ body.db.auction.settling
            /\ settleRound(DB, AuctionId, clock, "w1", topBids).db = DB

\* C28: createUser with a username that already exists fails with USERNAME_TAKEN
\* and creates no user; with a new username it creates a user whose wallet has
\* availableCents = 0 and reservedCents = 0.
C28_CreateUserContract ==
    \A username \in UserIds :
        LET r == createUser(DB, username)
        IN  IF username \in DOMAIN wallet
            THEN r.err = "USERNAME_TAKEN" /\ r.db = DB
            ELSE /\ r.err = "OK"
                 /\ DOMAIN r.db.wallet = DOMAIN wallet \cup {username}
                 /\ r.db.wallet[username] = [availableCents |-> 0, reservedCents |-> 0]

\* createUser apart from the error code: a duplicate fails and creates nothing,
\* a new username gets an empty wallet and no other document changes.
C28_CreateUserEffect ==
    \A username \in UserIds :
        LET r == createUser(DB, username)
        IN  IF username \in DOMAIN wallet
            THEN r.err # "OK" /\ r.db = DB
            ELSE /\ r.err = "OK"
                 /\ r.db.wallet[username] = [availableCents |-> 0, reservedCents |-> 0]
                 /\ \A u \in DOMAIN wallet : r.db.wallet[u] = wallet[u]
                 /\ [r.db EXCEPT !.wallet = wallet] = DB

\* In every state: topup of amountCents > 0 on an existing user returns OK, adds
\* amountCents to that user's availableCents, and leaves the user's
\* reservedCents, every other user, every bid, every winner and the auction as
\* they were; with amountCents <= 0 it fails with AMOUNT_MUST_BE_POSITIVE, with
\* an unknown user with USER_NOT_FOUND, and changes nothing.
C29_TopupCall ==
    \A userId \in UserIds, amountCents \in {-1, 0, 1, 2} :
        LET r == topup(DB, userId, amountCents)
        IN  IF amountCents <= 0
            THEN r.err = "AMOUNT_MUST_BE_POSITIVE" /\ r.db = DB
            ELSE IF userId \notin DOMAIN wallet
            THEN r.err = "USER_NOT_FOUND" /\ r.db = DB
            ELSE /\ r.err = "OK"
                 /\ DOMAIN r.db.wallet = DOMAIN wallet
                 /\ r.db.wallet[userId].availableCents
                        = wallet[userId].availableCents + amountCents
                 /\ r.db.wallet[userId].reservedCents = wallet[userId].reservedCents
                 /\ \A u \in DOMAIN wallet \ {userId} : r.db.wallet[u] = wallet[u]
                 /\ r.db.bids = bids
                 /\ r.db.auction = auction
                 /\ r.db.winners = winners

\* A step that adds a TOPUP row is a topup of that user: its amount is > 0 and
\* goes to the user's availableCents; nothing else but the ledger changes.
C29_TopupStep ==
    \A u \in DOMAIN wallet :
        NewRowCount(u, "TOPUP") > 0 =>
            /\ LedgerSum(NewRows, u, "TOPUP") > 0
            /\ wallet' = [wallet EXCEPT ![u].availableCents =
                              @ + LedgerSum(NewRows, u, "TOPUP")]
            /\ UNCHANGED <<auction, bids, winners>>

\* C29: topup(userId, amountCents) with amountCents > 0 on an existing user adds
\* exactly amountCents to the user's availableCents and changes no reservedCents,
\* no other user, no bid and no auction; amountCents <= 0 fails with
\* AMOUNT_MUST_BE_POSITIVE and an unknown user with USER_NOT_FOUND, changing
\* nothing.
C29_TopupContract == []C29_TopupCall /\ [][C29_TopupStep]_vars

\* C29 witness: a user holding a reservation was topped up after bidding, next to
\* another user with a wallet.
C29_Witness ==
    \E u \in DOMAIN wallet :
        /\ wallet[u].reservedCents > 0
        /\ wallet[u].availableCents > 0
        /\ LedgerSum(ledger, u, "TOPUP") = wallet[u].availableCents + wallet[u].reservedCents
        /\ LedgerSum(ledger, u, "TOPUP") >= 2
        /\ DOMAIN wallet # {u}

\* The Winner rows a step adds, and the sum of their amounts for one user.
NewWinners == winners' \ winners

RECURSIVE SumWinners(_)
SumWinners(ws) ==
    IF ws = {} THEN 0
    ELSE LET w == CHOOSE x \in ws : TRUE
         IN  w.amountCents + SumWinners(ws \ {w})

\* C30 as stated: for each winner of a round, settlement decreases the owner's
\* reservedCents by exactly the bid's amountCents and leaves the owner's
\* availableCents unchanged, whatever else the settlement does.
C30_WinnerChargedAsStated ==
    [][\A u \in DOMAIN wallet :
           LET won == SumWinners({w \in NewWinners : w.userId = u})
           IN  won > 0 =>
                   /\ wallet'[u].reservedCents = wallet[u].reservedCents - won
                   /\ wallet'[u].availableCents = wallet[u].availableCents]_vars

\* C30, amended: for each winner of a round, settlement creates one Winner row
\* with the bid's userId, entryId and amountCents and the round being settled,
\* sets the bid inactive, and decreases the owner's reservedCents by exactly the
\* bid's amountCents; the owner's availableCents is unchanged by a settlement
\* that leaves the auction running, and a settlement that ends the auction adds
\* to it exactly what it refunds the owner for other entries still active.
C30_WinnerCharged ==
    [][/\ \A w \in NewWinners :
              LET k == <<w.userId, w.entryId>>
              IN  /\ k \in DOMAIN bids
                  /\ bids[k].active
                  /\ bids[k].amountCents = w.amountCents
                  /\ w.amountCents > 0
                  /\ ~bids'[k].active
                  /\ bids'[k].amountCents = w.amountCents
                  /\ w.round = auction.currentRound
                  /\ \A x \in NewWinners :
                         (x.userId = w.userId /\ x.entryId = w.entryId) => x = w
       /\ \A u \in DOMAIN wallet :
              LET won == SumWinners({w \in NewWinners : w.userId = u})
                  refund == LedgerSum(NewRows, u, "REFUND")
              IN  won > 0 =>
                      /\ wallet'[u].reservedCents = wallet[u].reservedCents - won - refund
                      /\ wallet'[u].availableCents = wallet[u].availableCents + refund
                      /\ auction'.status = "running" => refund = 0]_vars

\* C30 witness: one user won with two entries in one round, has nothing reserved
\* any more and still has money available.
C30_Witness ==
    \E w1, w2 \in winners :
        /\ w1 # w2
        /\ w1.userId = w2.userId
        /\ w1.round = w2.round
        /\ wallet[w1.userId].reservedCents = 0
        /\ wallet[w1.userId].availableCents > 0
        /\ ~bids[<<w1.userId, w1.entryId>>].active
        /\ ~bids[<<w2.userId, w2.entryId>>].active

\* C21: within one Scheduler at most one settleDueAuctions invocation is in
\* flight at any time, also after a tick was cut off by the 20 s timeout.
C21_OneInvocationInFlight == Cardinality(InFlight(sched)) <= 1

\* The re-entrancy guard as far as it goes: at most one invocation is awaited by
\* a tick, running is set exactly while one is, and an invocation in flight that
\* no tick awaits is one whose tick timed out.
C21_OneAwaitedInvocation ==
    /\ Cardinality({i \in InFlight(sched) : sched.invs[i].awaited}) <= 1
    /\ sched.running <=> \E i \in InFlight(sched) : sched.invs[i].awaited
    /\ \A i \in InFlight(sched) :
           ~sched.invs[i].awaited => clock >= sched.invs[i].now + TickTimeoutSec

\* A step of invocation i in which settleRound threw.
SettleRoundFailed(i) == sched'.invs[i].failed \ sched.invs[i].failed # {}

WithLease(f, id, lockId, settlingAt) ==
    [f EXCEPT ![id].auction =
        [@ EXCEPT !.settling = TRUE, !.settlingLockId = lockId, !.settlingAt = settlingAt]]

\* The instants, up to the present, at which a lease can have been taken.
LeaseInstants == {t \in {0, FleetTickSec, 2 * FleetTickSec, clock} : t <= clock}

\* C23: the sweep at the start of a scheduler tick at time now releases every
\* lease on a running auction with settlingAt <= now - 2 minutes (settling =
\* false, settlingLockId and settlingAt cleared), after which the auction can be
\* settled again when its round is due; a lease with a later settlingAt, and
\* every other auction, is left untouched.
C23_StaleLeaseSweep ==
    \A id \in FleetIds, lockId \in Workers, settlingAt \in LeaseInstants :
        fleet[id].auction.status = "running" =>
            LET leased == WithLease(fleet, id, lockId, settlingAt)
                swept == StaleSweep(leased, clock)
                a == swept[id].auction
            IN  /\ \A other \in FleetIds \ {id} : swept[other] = fleet[other]
                /\ ~LeaseFilter(leased[id].auction, AuctionId, clock)
                /\ IF settlingAt <= clock - StaleLeaseSec
                   THEN /\ a.settling = FALSE
                        /\ a.settlingLockId = NoLock
                        /\ a.settlingAt = Null
                        /\ swept[id] = fleet[id]
                        /\ a.currentRoundEndsAt <= clock =>
                               LeaseFilter(a, AuctionId, clock)
                   ELSE swept[id] = leased[id]

\* C23 witness: a scheduler tick that read now >= 2 minutes has run its sweep
\* over a running auction whose round had been due for 2 minutes or more, so
\* that a lease taken when the round ended is stale and one taken at now is not.
C23_Witness ==
    \E i \in Invocations, id \in FleetIds :
        /\ sched.invs[i].pc = "find"
        /\ sched.invs[i].now = clock
        /\ clock >= StaleLeaseSec
        /\ fleet[id].auction.status = "running"
        /\ fleet[id].auction.currentRoundEndsAt \in LeaseInstants
        /\ fleet[id].auction.currentRoundEndsAt <= clock - StaleLeaseSec

\* A step that commits a settlement, and the bids it selected.
SettlementStep == settledRounds' # settledRounds

Selected == {<<w.userId, w.entryId>> : w \in NewWinners}

\* C31: after a settlement that does not end the auction, every active bid that
\* was not selected keeps its amountCents, active = true and lastBidAt, no
\* refund is made, and the wallet of a user who owns no winning entry in that
\* round is unchanged by the settlement.
C31_LosersCarryOver ==
    [][(SettlementStep /\ auction'.status = "running") =>
           /\ \A k \in ActiveKeys(bids) \ Selected :
                  /\ k \in DOMAIN bids'
                  /\ bids'[k] = bids[k]
           /\ \A r \in BagToSet(NewRows) : r.type # "REFUND"
           /\ \A u \in DOMAIN wallet :
                  (\A w \in NewWinners : w.userId # u) => wallet'[u] = wallet[u]]_vars

\* C31 witness: round 1 was settled with a winner and the auction runs on in
\* round 2, where another user's bid, placed in round 1 and not selected, is
\* still active with its amount reserved.
C31_Witness ==
    /\ auction.status = "running"
    /\ auction.currentRound = 2
    /\ \E w \in winners : \E k \in ActiveKeys(bids) :
           /\ w.round = 1
           /\ k[1] # w.userId
           /\ bids[k].lastBidAt < auction.currentRoundStartedAt
           /\ wallet[k[1]].reservedCents = bids[k].amountCents

\* The settleRound transactions that can run in the current state: in a serial
\* run the scheduler's call on the committed database at the present instant,
\* in a concurrent run the transactions in flight on their snapshots.
SettleRuns ==
    (IF Serial THEN {[db |-> DB, now |-> clock, lockId |-> "w1"]} ELSE {})
    \cup {[db |-> txns[w].snap, now |-> txns[w].now, lockId |-> w] :
             w \in {x \in Workers : txns[x].op = "settleRound"}}

\* Their callbacks' results that settle a round, one for every answer of the
\* winner query: the database read, the instant, the bids selected and the
\* database to commit.
Settlements ==
    UNION {{[before |-> c.db, now |-> c.now, topBids |-> topBids,
             after |-> SettleRoundBody(c.db, AuctionId, c.now, c.lockId, topBids).db] :
               topBids \in {t \in TopBids(c.db.bids, WinnersCount(c.db.auction)) :
                   LET r == SettleRoundBody(c.db, AuctionId, c.now, c.lockId, t)
                   IN  r.err = "OK" /\ r.settled}} :
           c \in SettleRuns}

SelectedOf(s) == {s.topBids[i] : i \in 1..Len(s.topBids)}

\* What a settleRound callback that brings remainingItems to 0 computes from the
\* database it reads.
C32_EndingCallback ==
    \A s \in Settlements :
        s.after.auction.remainingItems = 0 =>
            LET losers == ActiveKeys(s.before.bids) \ SelectedOf(s)
                a == s.after.auction
            IN  /\ a.status = "ended"
                /\ a.currentRoundStartedAt = Null
                /\ a.currentRoundEndsAt = Null
                /\ a.currentRoundExtendedBySec = 0
                /\ a.settling = FALSE
                /\ ActiveKeys(s.after.bids) = {}
                /\ \A k \in losers :
                       s.after.bids[k] = [s.before.bids[k] EXCEPT !.active = FALSE]
                /\ \A u \in DOMAIN s.before.wallet :
                       LET refund == SumAmounts(s.before.bids, {k \in losers : k[1] = u})
                           charge == SumAmounts(s.before.bids,
                                                {k \in SelectedOf(s) : k[1] = u})
                       IN  /\ s.after.wallet[u].availableCents =
                                  s.before.wallet[u].availableCents + refund
                           /\ s.after.wallet[u].reservedCents =
                                  s.before.wallet[u].reservedCents - charge - refund
                           /\ LedgerSum(s.after.ledger (-) s.before.ledger, u, "REFUND")
                                  = refund

\* What a step that commits such a settlement changes: the auction is ended
\* with its timers cleared, and every user's availableCents has risen by the
\* REFUND rows written for that user and reservedCents has fallen by them and
\* by the user's charges; in a serial run no bid is left active.
C32_EndingStep ==
    (SettlementStep /\ auction'.remainingItems = 0) =>
        /\ auction'.status = "ended"
        /\ auction'.currentRoundStartedAt = Null
        /\ auction'.currentRoundEndsAt = Null
        /\ auction'.currentRoundExtendedBySec = 0
        /\ auction'.settling = FALSE
        /\ Serial => ActiveKeys(bids') = {}
        /\ \A u \in DOMAIN wallet :
               LET refund == LedgerSum(NewRows, u, "REFUND")
                   charge == SumWinners({w \in NewWinners : w.userId = u})
               IN  /\ wallet'[u].availableCents = wallet[u].availableCents + refund
                   /\ wallet'[u].reservedCents = wallet[u].reservedCents - charge - refund

\* C32: a settlement that brings remainingItems to 0 moves, for every bid still
\* active after the winners were charged, exactly that bid's amountCents from
\* its owner's reservedCents to availableCents (a user with several such
\* entries gets the sum), sets the bid inactive, sets status = ended, clears
\* currentRoundStartedAt and currentRoundEndsAt, resets
\* currentRoundExtendedBySec to 0 and leaves settling = false.
C32_EndRefundsLosers == []C32_EndingCallback /\ [][C32_EndingStep]_vars

\* C32 witness: the auction ended with its last item won by one user while
\* another user had two active entries: both were refunded, and that user has
\* the sum available again and nothing reserved.
C32_Witness ==
    /\ auction.status = "ended"
    /\ auction.remainingItems = 0
    /\ \E u \in DOMAIN wallet : \E k1, k2 \in DOMAIN bids :
           /\ k1 # k2 /\ k1[1] = u /\ k2[1] = u
           /\ ~bids[k1].active /\ ~bids[k2].active
           /\ \A w \in winners : w.userId # u
           /\ winners # {}
           /\ LedgerSum(ledger, u, "REFUND") = bids[k1].amountCents + bids[k2].amountCents
           /\ wallet[u].reservedCents = 0
           /\ wallet[u].availableCents = bids[k1].amountCents + bids[k2].amountCents

\* What is left of the anti-snipe budget of the current round.
RemainingExt(a) == Max(0, a.antiSnipeMaxTotalExtensionSec - a.currentRoundExtendedBySec)

\* What a settleRound callback that leaves remainingItems > 0 computes from the
\* database it reads and the now it was given.
C33_AdvancingCallback ==
    \A s \in Settlements :
        s.after.auction.remainingItems > 0 =>
            LET a == s.after.auction
                b == s.before.auction
            IN  /\ a.status = "running"
                /\ a.currentRound = b.currentRound + 1
                /\ a.currentRoundStartedAt = s.now
                /\ a.currentRoundEndsAt = s.now + a.roundDurationSec
                /\ a.currentRoundExtendedBySec = 0
                /\ a.settling = FALSE
                /\ a.roundDurationSec = b.roundDurationSec
                /\ RemainingExt(a) = a.antiSnipeMaxTotalExtensionSec
                /\ \A t \in a.currentRoundStartedAt..(a.currentRoundEndsAt - 1) :
                       LET e == AntiSnipe(a, t)
                           add == IF a.antiSnipeMaxTotalExtensionSec = 0
                                  THEN a.antiSnipeExtensionSec
                                  ELSE Min(a.antiSnipeExtensionSec,
                                           a.antiSnipeMaxTotalExtensionSec)
                       IN  IF /\ a.antiSnipeWindowSec > 0 /\ a.antiSnipeExtensionSec > 0
                              /\ t >= a.currentRoundEndsAt - a.antiSnipeWindowSec
                           THEN e.currentRoundExtendedBySec = add
                           ELSE e = a

\* What a step that commits such a settlement changes: the round number is one
\* more, the new round starts at the call's now (the present instant in a serial
\* run, never a later one), ends roundDurationSec after it and has no extension.
C33_AdvancingStep ==
    (SettlementStep /\ auction'.remainingItems > 0) =>
        /\ auction'.status = "running"
        /\ auction'.currentRound = auction.currentRound + 1
        /\ auction'.currentRoundStartedAt <= clock
        /\ Serial => auction'.currentRoundStartedAt = clock
        /\ auction'.currentRoundEndsAt =
               auction'.currentRoundStartedAt + auction.roundDurationSec
        /\ auction'.currentRoundExtendedBySec = 0
        /\ auction'.settling = FALSE

\* C33: a settlement that leaves remainingItems > 0 sets currentRound to its
\* previous value + 1, currentRoundStartedAt = now, currentRoundEndsAt = now +
\* roundDurationSec, currentRoundExtendedBySec = 0 and settling = false, where
\* now is the instant passed to settleRound; the anti-snipe budget of the new
\* round is the full antiSnipeMaxTotalExtensionSec again, so that a bid in the
\* window of the new round extends it as the first such bid of round 1 did.
C33_NextRoundFields == []C33_AdvancingCallback /\ [][C33_AdvancingStep]_vars

\* C33 witness: round 1 was extended by a bid in its window and then settled;
\* the auction is in round 2, which started at the settlement's now with the
\* extension counter at 0.
C33_Witness ==
    /\ auction.status = "running"
    /\ auction.currentRound = 2
    /\ auction.antiSnipeMaxTotalExtensionSec > 0
    /\ auction.currentRoundStartedAt > auction.roundDurationSec
    /\ auction.currentRoundEndsAt = auction.currentRoundStartedAt + auction.roundDurationSec
    /\ auction.currentRoundExtendedBySec = 0
    /\ \E w \in winners : w.round = 1

\* A database whose auction carries a lease, as the lease acquisition of a
\* settleRound called with now = settlingAt writes it.
LeasedDB(db, lockId, settlingAt) ==
    [db EXCEPT !.auction = [@ EXCEPT !.settling = TRUE, !.settlingLockId = lockId,
                                     !.settlingAt = settlingAt]]

\* The databases a settleRound can read: the committed one, the snapshots of
\* the transactions in flight, and each of them with a lease on the auction.
SettleReads ==
    LET read == {DB} \cup {c.db : c \in SettleRuns}
    IN  read \cup {LeasedDB(db, w, db.auction.currentRoundEndsAt) :
                      db \in {x \in read : x.auction.status = "running"}, w \in Workers}

\* The instants a settleRound on auction a can be given as now: the present or
\* an earlier reading of the clock, among them the two around the round's end.
SettleInstants(a) ==
    {t \in {0, a.currentRoundEndsAt - 1, a.currentRoundEndsAt, clock} :
        0 <= t /\ t <= clock}

\* The three cases in which settleRound has nothing to settle.
NothingToSettle(a, now) ==
    \/ a.status # "running"
    \/ a.currentRoundEndsAt > now
    \/ a.settling = TRUE

\* In each of the three cases settleRound returns "OK" and the database it read.
C34_SkipReturnsInput ==
    \A db \in SettleReads :
        LET answers == TopBids(db.bids, WinnersCount(db.auction))
        IN  \A now \in SettleInstants(db.auction), lockId \in Workers :
                NothingToSettle(db.auction, now) =>
                    \A topBids \in answers :
                        settleRound(db, AuctionId, now, lockId, topBids)
                            = [err |-> "OK", settled |-> FALSE, db |-> db]

\* A settleRound transaction that finds nothing to settle on its snapshot ends
\* without changing a document.
C34_SkipStep ==
    \A w \in Workers :
        (/\ txns[w].op = "settleRound"
         /\ NothingToSettle(txns[w].snap.auction, txns[w].now)
         /\ txns'[w] = NoTxn)
        => UNCHANGED <<auction, wallet, bids, winners, ledger, settledRounds>>

\* C34: settleRound(auctionId, now) returns without error and changes nothing
\* (auction, bids, winners, wallets and ledger all unchanged) when the auction
\* is not running, when currentRoundEndsAt > now, or when settling is already
\* true.
C34_SkipChangesNothing == []C34_SkipReturnsInput /\ [][C34_SkipStep]_vars

\* C34 witness: a settleRound transaction lost its round to another one that
\* committed first; run again on a new snapshot, it finds the auction ended or
\* the new round not due and returns silently.
C34_Witness ==
    \E w \in Workers :
        /\ txns[w].op = "settleRound"
        /\ settledRounds # <<>>
        /\ NothingToSettle(txns[w].snap.auction, txns[w].now)
        /\ \A topBids \in TxnTopBids(txns[w]) :
               /\ TxnResult(txns[w], topBids).err = "OK"
               /\ TxnResult(txns[w], topBids).db = txns[w].snap

\* What a settleRound callback computes when it reads fewer active bids than
\* the round offers items.
C35_ShortCallback ==
    \A s \in Settlements :
        LET active == ActiveKeys(s.before.bids)
            n == Cardinality(active)
            b == s.before.auction
            a == s.after.auction
            won == s.after.winners \ s.before.winners
        IN  n < WinnersCount(b) =>
                /\ SelectedOf(s) = active
                /\ Cardinality(won) = n
                /\ {<<w.userId, w.entryId>> : w \in won} = active
                /\ a.remainingItems = b.remainingItems - n
                /\ a.nextGiftNumber = b.nextGiftNumber + n
                /\ a.status = "running"
                /\ a.currentRound = b.currentRound + 1
                /\ n = 0 =>
                       s.after = [s.before EXCEPT !.auction =
                                     [b EXCEPT !.currentRound = @ + 1,
                                               !.currentRoundStartedAt = s.now,
                                               !.currentRoundEndsAt = s.now + b.roundDurationSec]]

\* What a step that commits a settlement with fewer winners than the round
\* offered items changes: the counters move by the number of Winner rows added,
\* the auction runs on in the next round, and with no winner nothing but the
\* auction document changes.
C35_ShortStep ==
    (SettlementStep /\ Cardinality(NewWinners) < WinnersCount(auction)) =>
        /\ auction'.remainingItems = auction.remainingItems - Cardinality(NewWinners)
        /\ auction'.nextGiftNumber = auction.nextGiftNumber + Cardinality(NewWinners)
        /\ auction'.status = "running"
        /\ auction'.currentRound = auction.currentRound + 1
        /\ NewWinners = {} => UNCHANGED <<wallet, bids, winners, ledger>>

\* C35: when a due round has fewer active bids than K = min(itemsPerRound,
\* remainingItems), settlement awards exactly the existing active bids,
\* decreases remainingItems and increases nextGiftNumber by that number only,
\* and advances to the next round; with no active bid at all it changes only
\* the round counter and the round timers.
C35_FewerBidsThanItems == []C35_ShortCallback /\ [][C35_ShortStep]_vars

\* C35 witness: a round offering two items was settled with one active bid:
\* one gift was awarded, one item is left and the auction is in round 2.
C35_Witness ==
    /\ auction.status = "running"
    /\ auction.itemsPerRound = 2
    /\ auction.currentRound = 2
    /\ Cardinality(winners) = 1
    /\ auction.remainingItems = 1
    /\ auction.nextGiftNumber = 2
    /\ ActiveKeys(bids) = {}

\* Within one settlement the bid selected at position i (from 1) gets the gift
\* nextGiftNumber + (i - 1), and a bid that sorts before another gets the
\* smaller number.
C36_NumberedInSelectionOrder ==
    \A s \in Settlements :
        LET won == s.after.winners \ s.before.winners
            GiftOf(k) == (CHOOSE w \in won : <<w.userId, w.entryId>> = k).giftNumber
        IN  /\ Cardinality(won) = Len(s.topBids)
            /\ \A i \in 1..Len(s.topBids) :
                   \E w \in won :
                       /\ <<w.userId, w.entryId>> = s.topBids[i]
                       /\ w.giftNumber = s.before.auction.nextGiftNumber + (i - 1)
            /\ \A k1, k2 \in SelectedOf(s) :
                   Before(s.before.bids, k1, k2) => GiftOf(k1) < GiftOf(k2)

\* A step that commits a settlement adds Winner rows numbered nextGiftNumber,
\* nextGiftNumber + 1, ... without a gap, in the sort order of their bids.
C36_NumberingStep ==
    SettlementStep =>
        /\ {w.giftNumber : w \in NewWinners} =
               auction.nextGiftNumber..(auction.nextGiftNumber + Cardinality(NewWinners) - 1)
        /\ \A w1, w2 \in NewWinners :
               Before(bids, <<w1.userId, w1.entryId>>, <<w2.userId, w2.entryId>>)
                   => w1.giftNumber < w2.giftNumber

\* Every winner of a later round has a larger gift number than every winner of
\* an earlier round.
C36_LaterRoundLargerNumber ==
    \A w1, w2 \in winners : w1.round < w2.round => w1.giftNumber < w2.giftNumber

\* C36: within one settlement the i-th selected bid (0-based, in selection
\* order) receives giftNumber = nextGiftNumber + i, so a higher-ranked bid gets
\* a smaller gift number, and every winner of a later round has a larger gift
\* number than every winner of an earlier round of the same auction.
C36_GiftNumberOrder ==
    /\ [](C36_NumberedInSelectionOrder /\ C36_LaterRoundLargerNumber)
    /\ [][C36_NumberingStep]_vars

\* C36 witness: two bids of different amounts won in one round; the higher one
\* has gift 1 and the lower one gift 2.
C36_Witness ==
    \E w1, w2 \in winners :
        /\ w1.round = w2.round
        /\ w1.amountCents > w2.amountCents
        /\ w1.giftNumber = 1
        /\ w2.giftNumber = 2

\* The auction collection as the stale-lease sweep sees it.
Auctions == [id \in {AuctionId} |-> [auction |-> auction, bids |-> bids, winners |-> winners]]

\* The committed auction carries no lease, no transaction in flight read one,
\* no placeBid fails with AUCTION_IS_SETTLING, and the unlock and the sweep
\* applied to the committed auction change nothing.
C37_NoLeaseInState ==
    /\ auction.settling = FALSE
    /\ auction.settlingLockId = NoLock
    /\ auction.settlingAt = Null
    /\ \A w \in Workers :
           txns[w].op # "none" =>
               /\ txns[w].snap.auction.settling = FALSE
               /\ txns[w].op = "placeBid" =>
                      TxnResult(txns[w], <<>>).err # "AUCTION_IS_SETTLING"
    /\ \A k \in BidKeys, amountCents \in BidAmounts :
           placeBid(DB, AuctionId, k[1], k[2], amountCents, clock).err
               # "AUCTION_IS_SETTLING"
    /\ \A lockId \in Workers : Unlock(auction, AuctionId, lockId) = auction
    /\ \A now \in {clock, clock + StaleLeaseSec} : StaleSweep(Auctions, now) = Auctions

\* No step changes a lease field of the committed auction, and a settleRound
\* transaction that ends without settling a round (its callback threw and the
\* unlock ran, or it found nothing to settle) leaves the auction as it is.
C37_NoLeaseStep ==
    /\ auction'.settling = auction.settling
    /\ auction'.settlingLockId = auction.settlingLockId
    /\ auction'.settlingAt = auction.settlingAt
    /\ \A w \in Workers :
           (txns[w].op = "settleRound" /\ txns'[w] = NoTxn
               /\ settledRounds' = settledRounds) => auction' = auction

\* C37: the settlement lease is taken and released inside one and the same
\* transaction, so every committed state has settling = false: no other
\* transaction ever observes settling = true (the snapshot of every transaction
\* in flight has settling = false, also while another one holds the lease), no
\* placeBid ever fails with AUCTION_IS_SETTLING, and neither the stale-lease
\* sweep nor the post-abort unlock ever modifies the auction.
C37_LeaseNeverCommitted == []C37_NoLeaseInState /\ [][C37_NoLeaseStep]_vars

\* C37 witness: two settleRound transactions are in flight on the same due
\* round; each took the lease on its own snapshot, neither sees the other's,
\* and the committed auction has settling = false.
C37_Witness ==
    /\ \A w \in Workers :
           /\ LeaseHeld(w)
           /\ \A topBids \in TxnTopBids(txns[w]) :
                  SettleRoundBody(txns[w].snap, AuctionId, txns[w].now, w, topBids).settled
    /\ \E k \in ActiveKeys(bids) : TRUE
    /\ auction.status = "running"
    /\ auction.settling = FALSE

\* Under SchedulerSpec: the sweep of a scheduler tick modifies no auction, and
\* no auction of the fleet ever carries a lease.
C37_SweepReleasesNothing ==
    /\ [](\A id \in FleetIds : fleet[id].auction.settling = FALSE)
    /\ [][\A i \in Invocations :
              (sched.invs[i].pc = "sweep" /\ sched'.invs[i].pc = "find") =>
                  fleet' = fleet]_vars

\* While the auction runs, the round's end is its start plus the round duration
\* plus the extension counter.
C38_EndIsStartPlusDurationPlusExtension ==
    auction.status = "running" =>
        /\ auction.currentRoundStartedAt # Null
        /\ auction.currentRoundEndsAt # Null
        /\ auction.currentRoundEndsAt =
               auction.currentRoundStartedAt + auction.roundDurationSec
                   + auction.currentRoundExtendedBySec

\* Within a round the start and the duration stay, and a step moves the end by
\* exactly what it adds to the extension counter.
C38_MoveTogether ==
    (/\ auction.status = "running" /\ auction'.status = "running"
     /\ auction'.currentRound = auction.currentRound) =>
        /\ auction'.currentRoundStartedAt = auction.currentRoundStartedAt
        /\ auction'.roundDurationSec = auction.roundDurationSec
        /\ auction'.currentRoundEndsAt - auction.currentRoundEndsAt =
               auction'.currentRoundExtendedBySec - auction.currentRoundExtendedBySec

\* C38: for the running auction, in every committed state, currentRoundEndsAt =
\* currentRoundStartedAt + roundDurationSec + currentRoundExtendedBySec (in
\* seconds): the end instant and the extension counter always move together.
C38_EndMatchesExtension == []C38_EndIsStartPlusDurationPlusExtension /\ [][C38_MoveTogether]_vars

\* C38 witness: round 1 was extended and settled, and round 2, started at the
\* settlement, has been extended by a bid in its own window.
C38_Witness ==
    /\ auction.status = "running"
    /\ auction.currentRound = 2
    /\ auction.currentRoundStartedAt > auction.roundDurationSec
    /\ auction.currentRoundExtendedBySec > 0
    /\ auction.currentRoundEndsAt >
           auction.currentRoundStartedAt + auction.roundDurationSec

\* Each user's wallet and Winner rows add up to the user's top-ups.
C39_WalletPlusWonIsToppedUp ==
    \A u \in DOMAIN wallet :
        wallet[u].availableCents + wallet[u].reservedCents
            + SumWinners({w \in winners : w.userId = u})
        = LedgerSum(ledger, u, "TOPUP")

\* A step changes the total a user holds or has paid only by the TOPUP rows it
\* writes for that user.
C39_OnlyTopupAddsMoney ==
    \A u \in DOMAIN wallet :
        (wallet'[u].availableCents + wallet'[u].reservedCents
            + SumWinners({w \in winners' : w.userId = u}))
        - (wallet[u].availableCents + wallet[u].reservedCents
            + SumWinners({w \in winners : w.userId = u}))
        = LedgerSum(NewRows, u, "TOPUP")

\* C39: for every user (created with an empty wallet), in every committed
\* state, availableCents + reservedCents + (sum of amountCents of that user's
\* Winner rows) = (sum of that user's top-ups): bidding, settlement and refunds
\* neither create nor destroy money.
C39_MoneyConserved == []C39_WalletPlusWonIsToppedUp /\ [][C39_OnlyTopupAddsMoney]_vars

\* C39 witness: a user who topped up 3 has paid for a gift, holds a bid in a
\* later round and has money left.
C39_Witness ==
    \E u \in DOMAIN wallet :
        /\ SumWinners({w \in winners : w.userId = u}) > 0
        /\ wallet[u].reservedCents > 0
        /\ wallet[u].availableCents > 0
        /\ LedgerSum(ledger, u, "TOPUP") = 3

\* A second settleRound with the same now, on the database a settling callback
\* leaves, settles nothing.
C40_SecondCallSkips ==
    \A s \in Settlements :
        /\ s.after.auction.status = "running" =>
               /\ s.after.auction.currentRoundEndsAt > s.now
               /\ s.after.auction.currentRound = s.before.auction.currentRound + 1
        /\ \A lockId \in Workers :
               \A topBids \in TopBids(s.after.bids, WinnersCount(s.after.auction)) :
                   settleRound(s.after, AuctionId, s.now, lockId, topBids)
                       = [err |-> "OK", settled |-> FALSE, db |-> s.after]

\* After a step that commits a settlement, the auction is not due at the now
\* that settlement was given: the present instant in a serial run, the now of
\* the committing transaction in a concurrent one.
C40_StepLeavesNothingDue ==
    SettlementStep =>
        \A now \in (IF Serial THEN {clock}
                    ELSE {txns[w].now : w \in {x \in Workers :
                              txns[x].op = "settleRound" /\ txns'[x] = NoTxn}}) :
            ~LeaseFilter(auction', AuctionId, now)

\* C40: calling settleRound(auctionId, now) a second time with the same now,
\* after the first call committed, changes nothing: for one value of now at
\* most one round of the auction is settled, because the new round ends at
\* now + roundDurationSec > now.
C40_SameNowSettlesOnce == []C40_SecondCallSkips /\ [][C40_StepLeavesNothingDue]_vars

\* C40 witness: round 1 was settled at the present instant and a bid that did
\* not win is still active: a second call with the same now would have a
\* winner to take if it settled round 2.
C40_Witness ==
    /\ auction.status = "running"
    /\ auction.currentRound = 2
    /\ auction.currentRoundStartedAt = clock
    /\ settledRounds = <<1>>
    /\ ActiveKeys(bids) # {}
    /\ \A topBids \in TopBids(bids, WinnersCount(auction)) :
           ~settleRound(DB, AuctionId, clock, "w1", topBids).settled

====
